---- MODULE Spec2Model ----
(***************************************************************************)
(* Rule reconciliation engine of azure_access_manager.py.                  *)
(*                                                                         *)
(* Python strings are modelled as sequences of one-character strings, so   *)
(* that strip(), lower(), split(), int() and the CIDR parser are computed  *)
(* the way the code computes them.  A rule dict is a record whose fields   *)
(* keep the keys of the provider's JSON; an absent or empty field is the   *)
(* empty string <<>> (the default of rule.get(key, "")), an absent or      *)
(* empty list field is the empty list <<>>.                                *)
(***************************************************************************)
EXTENDS Integers, Sequences, FiniteSets, TLC

(***************************************************************************)
(* Python built-ins on strings                                             *)
(***************************************************************************)

\* A string of this module holds the characters U+0000 to U+00FF (the backquote
\* excepted) and those from U+0100 to U+FFFF whose code point ends in a byte
\* of 80 to FF.  The tables below are those of Python 3.11 on these characters.

\* str.strip() drops the characters of str.isspace() from both
\* ends: blank, \t, \n, \r, \f (U+000C), then U+000B, U+001C to U+001F,
\* U+0085, U+00A0 and U+1680 written as the characters themselves.
Whitespace ==
  {" ", "\t", "\n", "\r", "\f", "", "", "", "", "", "", " ", " "}

\* the characters of str(n)
DigitChars == <<"0", "1", "2", "3", "4", "5", "6", "7", "8", "9">>

\* "0" to "9", the digits that ipaddress reads
IsAsciiDigit(c) == \E i \in 1..10 : DigitChars[i] = c

\* the decimal digits that int() reads (Unicode category Nd): row v + 1 holds
\* the digits of value v
DecimalDigits ==
  << <<"0", "۰", "߀", "০", "૦", "௦", "೦", "෦", "໐", "႐", "០", "᧐", "᪀", "᪐", "᮰", "꣐", "꧐", "꧰", "꯰">>,
     <<"1", "۱", "߁", "১", "૧", "௧", "೧", "෧", "໑", "႑", "១", "᧑", "᪁", "᪑", "᮱", "꣑", "꧑", "꧱", "꯱">>,
     <<"2", "۲", "߂", "২", "૨", "௨", "೨", "෨", "໒", "႒", "២", "᧒", "᪂", "᪒", "᮲", "꣒", "꧒", "꧲", "꯲">>,
     <<"3", "۳", "߃", "৩", "૩", "௩", "೩", "෩", "໓", "႓", "៣", "᧓", "᪃", "᪓", "᮳", "꣓", "꧓", "꧳", "꯳">>,
     <<"4", "۴", "߄", "৪", "૪", "௪", "೪", "෪", "໔", "႔", "៤", "᧔", "᪄", "᪔", "᮴", "꣔", "꧔", "꧴", "꯴">>,
     <<"5", "۵", "߅", "৫", "૫", "௫", "೫", "෫", "໕", "႕", "៥", "᧕", "᪅", "᪕", "᮵", "꣕", "꧕", "꧵", "꯵">>,
     <<"6", "۶", "߆", "৬", "૬", "௬", "೬", "෬", "໖", "႖", "៦", "᧖", "᪆", "᪖", "᮶", "꣖", "꧖", "꧶", "꯶">>,
     <<"7", "۷", "߇", "৭", "૭", "௭", "೭", "෭", "໗", "႗", "៧", "᧗", "᪇", "᪗", "᮷", "꣗", "꧗", "꧷", "꯷">>,
     <<"8", "۸", "߈", "৮", "૮", "௮", "೮", "෮", "໘", "႘", "៨", "᧘", "᪈", "᪘", "᮸", "꣘", "꧘", "꧸", "꯸">>,
     <<"9", "۹", "߉", "৯", "૯", "௯", "೯", "෯", "໙", "႙", "៩", "᧙", "᪉", "᪙", "᮹", "꣙", "꧙", "꧹", "꯹">> >>

\* the value of each digit character
DigitTable ==
  [c \in UNION {{DecimalDigits[v][i] : i \in 1..Len(DecimalDigits[v])} : v \in 1..10} |->
     (CHOOSE v \in 1..10 : \E i \in 1..Len(DecimalDigits[v]) : DecimalDigits[v][i] = c) - 1]

DigitSet == DOMAIN DigitTable

IsDigit(c) == c \in DigitSet

DigitVal(c) == DigitTable[c]

\* the characters that str.lower() changes, U+03A3 excepted
UpperChars ==
  <<"A", "B", "C", "D", "E", "F", "G", "H", "I", "J", "K", "L", "M", "N", "O", "P", "Q", "R",
    "S", "T", "U", "V", "W", "X", "Y", "Z", "À", "Á", "Â", "Ã", "Ä", "Å", "Æ", "Ç", "È", "É",
    "Ê", "Ë", "Ì", "Í", "Î", "Ï", "Ð", "Ñ", "Ò", "Ó", "Ô", "Õ", "Ö", "Ø", "Ù", "Ú", "Û", "Ü",
    "Ý", "Þ", "Ɓ", "Ƃ", "Ƅ", "Ɔ", "Ƈ", "Ɖ", "Ɗ", "Ƌ", "Ǝ", "Ə", "Ɛ", "Ƒ", "Ɠ", "Ɣ", "Ɩ", "Ɨ",
    "Ƙ", "Ɯ", "Ɲ", "Ɵ", "Ơ", "Ƣ", "Ƥ", "Ʀ", "Ƨ", "Ʃ", "Ƭ", "Ʈ", "Ư", "Ʊ", "Ʋ", "Ƴ", "Ƶ", "Ʒ",
    "Ƹ", "Ƽ", "Ǆ", "ǅ", "Ǉ", "ǈ", "Ǌ", "ǋ", "Ǎ", "Ǐ", "Ǒ", "Ǔ", "Ǖ", "Ǘ", "Ǚ", "Ǜ", "Ǟ", "Ǡ",
    "Ǣ", "Ǥ", "Ǧ", "Ǩ", "Ǫ", "Ǭ", "Ǯ", "Ǳ", "ǲ", "Ǵ", "Ƕ", "Ƿ", "Ǹ", "Ǻ", "Ǽ", "Ǿ", "Ά", "Έ",
    "Ή", "Ί", "Ό", "Ύ", "Ώ", "Α", "Β", "Γ", "Δ", "Ε", "Ζ", "Η", "Θ", "Ι", "Κ", "Λ", "Μ", "Ν",
    "Ξ", "Ο", "Π", "Ρ", "Τ", "Υ", "Φ", "Χ", "Ψ", "Ω", "Ϊ", "Ϋ", "Ϗ", "Ϙ", "Ϛ", "Ϝ", "Ϟ", "Ϡ",
    "Ϣ", "Ϥ", "Ϧ", "Ϩ", "Ϫ", "Ϭ", "Ϯ", "ϴ", "Ϸ", "Ϲ", "Ϻ", "Ͻ", "Ͼ", "Ͽ", "Ҁ", "Ҋ", "Ҍ", "Ҏ",
    "Ґ", "Ғ", "Ҕ", "Җ", "Ҙ", "Қ", "Ҝ", "Ҟ", "Ҡ", "Ң", "Ҥ", "Ҧ", "Ҩ", "Ҫ", "Ҭ", "Ү", "Ұ", "Ҳ",
    "Ҵ", "Ҷ", "Ҹ", "Һ", "Ҽ", "Ҿ", "Ӏ", "Ӂ", "Ӄ", "Ӆ", "Ӈ", "Ӊ", "Ӌ", "Ӎ", "Ӑ", "Ӓ", "Ӕ", "Ӗ",
    "Ә", "Ӛ", "Ӝ", "Ӟ", "Ӡ", "Ӣ", "Ӥ", "Ӧ", "Ө", "Ӫ", "Ӭ", "Ӯ", "Ӱ", "Ӳ", "Ӵ", "Ӷ", "Ӹ", "Ӻ",
    "Ӽ", "Ӿ", "Ⴀ", "Ⴁ", "Ⴂ", "Ⴃ", "Ⴄ", "Ⴅ", "Ⴆ", "Ⴇ", "Ⴈ", "Ⴉ", "Ⴊ", "Ⴋ", "Ⴌ", "Ⴍ", "Ⴎ", "Ⴏ",
    "Ⴐ", "Ⴑ", "Ⴒ", "Ⴓ", "Ⴔ", "Ⴕ", "Ⴖ", "Ⴗ", "Ⴘ", "Ⴙ", "Ⴚ", "Ⴛ", "Ⴜ", "Ⴝ", "Ⴞ", "Ⴟ", "Ⴠ", "Ⴡ",
    "Ⴢ", "Ⴣ", "Ⴤ", "Ⴥ", "Ⴧ", "Ⴭ", "Ꭰ", "Ꭱ", "Ꭲ", "Ꭳ", "Ꭴ", "Ꭵ", "Ꭶ", "Ꭷ", "Ꭸ", "Ꭹ", "Ꭺ", "Ꭻ",
    "Ꭼ", "Ꭽ", "Ꭾ", "Ꭿ", "Ꮀ", "Ꮁ", "Ꮂ", "Ꮃ", "Ꮄ", "Ꮅ", "Ꮆ", "Ꮇ", "Ꮈ", "Ꮉ", "Ꮊ", "Ꮋ", "Ꮌ", "Ꮍ",
    "Ꮎ", "Ꮏ", "Ꮐ", "Ꮑ", "Ꮒ", "Ꮓ", "Ꮔ", "Ꮕ", "Ꮖ", "Ꮗ", "Ꮘ", "Ꮙ", "Ꮚ", "Ꮛ", "Ꮜ", "Ꮝ", "Ꮞ", "Ꮟ",
    "Ꮠ", "Ꮡ", "Ꮢ", "Ꮣ", "Ꮤ", "Ꮥ", "Ꮦ", "Ꮧ", "Ꮨ", "Ꮩ", "Ꮪ", "Ꮫ", "Ꮬ", "Ꮭ", "Ꮮ", "Ꮯ", "Ꮰ", "Ꮱ",
    "Ꮲ", "Ꮳ", "Ꮴ", "Ꮵ", "Ꮶ", "Ꮷ", "Ꮸ", "Ꮹ", "Ꮺ", "Ꮻ", "Ꮼ", "Ꮽ", "Ꮾ", "Ꮿ", "Ᏸ", "Ᏹ", "Ᏺ", "Ᏻ",
    "Ᏼ", "Ᏽ", "Ა", "Ბ", "Გ", "Დ", "Ე", "Ვ", "Ზ", "Თ", "Ი", "Კ", "Ლ", "Მ", "Ნ", "Ო", "Პ", "Ჟ",
    "Რ", "Ს", "Ტ", "Უ", "Ფ", "Ქ", "Ღ", "Ყ", "Შ", "Ჩ", "Ც", "Ძ", "Წ", "Ჭ", "Ხ", "Ჯ", "Ჰ", "Ჱ",
    "Ჲ", "Ჳ", "Ჴ", "Ჵ", "Ჶ", "Ჷ", "Ჸ", "Ჹ", "Ჺ", "Ჽ", "Ჾ", "Ჿ", "Ẁ", "Ẃ", "Ẅ", "Ẇ", "Ẉ", "Ẋ",
    "Ẍ", "Ẏ", "Ẑ", "Ẓ", "Ẕ", "ẞ", "Ạ", "Ả", "Ấ", "Ầ", "Ẩ", "Ẫ", "Ậ", "Ắ", "Ằ", "Ẳ", "Ẵ", "Ặ",
    "Ẹ", "Ẻ", "Ẽ", "Ế", "Ề", "Ể", "Ễ", "Ệ", "Ỉ", "Ị", "Ọ", "Ỏ", "Ố", "Ồ", "Ổ", "Ỗ", "Ộ", "Ớ",
    "Ờ", "Ở", "Ỡ", "Ợ", "Ụ", "Ủ", "Ứ", "Ừ", "Ử", "Ữ", "Ự", "Ỳ", "Ỵ", "Ỷ", "Ỹ", "Ỻ", "Ỽ", "Ỿ",
    "ᾈ", "ᾉ", "ᾊ", "ᾋ", "ᾌ", "ᾍ", "ᾎ", "ᾏ", "ᾘ", "ᾙ", "ᾚ", "ᾛ", "ᾜ", "ᾝ", "ᾞ", "ᾟ", "ᾨ", "ᾩ",
    "ᾪ", "ᾫ", "ᾬ", "ᾭ", "ᾮ", "ᾯ", "Ᾰ", "Ᾱ", "Ὰ", "Ά", "ᾼ", "Ὲ", "Έ", "Ὴ", "Ή", "ῌ", "Ῐ", "Ῑ",
    "Ὶ", "Ί", "Ῠ", "Ῡ", "Ὺ", "Ύ", "Ῥ", "Ὸ", "Ό", "Ὼ", "Ώ", "ῼ", "Ↄ", "Ⓐ", "Ⓑ", "Ⓒ", "Ⓓ", "Ⓔ",
    "Ⓕ", "Ⓖ", "Ⓗ", "Ⓘ", "Ⓙ", "Ⓚ", "Ⓛ", "Ⓜ", "Ⓝ", "Ⓞ", "Ⓟ", "Ⓠ", "Ⓡ", "Ⓢ", "Ⓣ", "Ⓤ", "Ⓥ", "Ⓦ",
    "Ⓧ", "Ⓨ", "Ⓩ", "Ⲁ", "Ⲃ", "Ⲅ", "Ⲇ", "Ⲉ", "Ⲋ", "Ⲍ", "Ⲏ", "Ⲑ", "Ⲓ", "Ⲕ", "Ⲗ", "Ⲙ", "Ⲛ", "Ⲝ",
    "Ⲟ", "Ⲡ", "Ⲣ", "Ⲥ", "Ⲧ", "Ⲩ", "Ⲫ", "Ⲭ", "Ⲯ", "Ⲱ", "Ⲳ", "Ⲵ", "Ⲷ", "Ⲹ", "Ⲻ", "Ⲽ", "Ⲿ", "Ⳁ",
    "Ⳃ", "Ⳅ", "Ⳇ", "Ⳉ", "Ⳋ", "Ⳍ", "Ⳏ", "Ⳑ", "Ⳓ", "Ⳕ", "Ⳗ", "Ⳙ", "Ⳛ", "Ⳝ", "Ⳟ", "Ⳡ", "Ⳣ", "Ⳬ",
    "Ⳮ", "Ⳳ", "Ꚁ", "Ꚃ", "Ꚅ", "Ꚇ", "Ꚉ", "Ꚋ", "Ꚍ", "Ꚏ", "Ꚑ", "Ꚓ", "Ꚕ", "Ꚗ", "Ꚙ", "Ꚛ", "Ꞁ", "Ꞃ",
    "Ꞅ", "Ꞇ", "Ꞌ", "Ɥ", "Ꞑ", "Ꞓ", "Ꞗ", "Ꞙ", "Ꞛ", "Ꞝ", "Ꞟ", "Ꞡ", "Ꞣ", "Ꞥ", "Ꞧ", "Ꞩ", "Ɦ", "Ɜ",
    "Ɡ", "Ɬ", "Ɪ", "Ʞ", "Ʇ", "Ʝ", "Ꭓ", "Ꞵ", "Ꞷ", "Ꞹ", "Ꞻ", "Ꞽ", "Ꞿ", "Ꟁ", "Ꟃ", "Ꞔ", "Ʂ", "Ᶎ",
    "Ꟈ", "Ꟊ", "Ꟑ", "Ꟗ", "Ꟙ", "Ꟶ">>

\* what str.lower() makes of them, place by place; a letter that a string of
\* this module cannot hold is written by its code point
LowerChars ==
  <<"a", "b", "c", "d", "e", "f", "g", "h", "i", "j", "k", "l", "m", "n", "o", "p", "q", "r",
    "s", "t", "u", "v", "w", "x", "y", "z", "à", "á", "â", "ã", "ä", "å", "æ", "ç", "è", "é",
    "ê", "ë", "ì", "í", "î", "ï", "ð", "ñ", "ò", "ó", "ô", "õ", "ö", "ø", "ù", "ú", "û", "ü",
    "ý", "þ", "U+0253", "ƃ", "ƅ", "U+0254", "ƈ", "U+0256", "U+0257", "ƌ", "ǝ", "U+0259",
    "U+025B", "ƒ", "U+0260", "U+0263", "U+0269", "U+0268", "ƙ", "U+026F", "U+0272", "U+0275",
    "ơ", "ƣ", "ƥ", "ʀ", "ƨ", "ʃ", "ƭ", "ʈ", "ư", "ʊ", "ʋ", "ƴ", "ƶ", "ʒ", "ƹ", "ƽ", "ǆ", "ǆ",
    "ǉ", "ǉ", "ǌ", "ǌ", "ǎ", "ǐ", "ǒ", "ǔ", "ǖ", "ǘ", "ǚ", "ǜ", "ǟ", "ǡ", "ǣ", "ǥ", "ǧ", "ǩ",
    "ǫ", "ǭ", "ǯ", "ǳ", "ǳ", "ǵ", "ƕ", "ƿ", "ǹ", "ǻ", "ǽ", "ǿ", "ά", "έ", "ή", "ί", "ό", "ύ",
    "ώ", "α", "β", "γ", "δ", "ε", "ζ", "η", "θ", "ι", "κ", "λ", "μ", "ν", "ξ", "ο", "π", "ρ",
    "τ", "υ", "φ", "χ", "ψ", "ω", "ϊ", "ϋ", "ϗ", "ϙ", "ϛ", "ϝ", "ϟ", "ϡ", "ϣ", "ϥ", "ϧ", "ϩ",
    "ϫ", "ϭ", "ϯ", "θ", "ϸ", "ϲ", "ϻ", "U+037B", "U+037C", "U+037D", "ҁ", "ҋ", "ҍ", "ҏ", "ґ",
    "ғ", "ҕ", "җ", "ҙ", "қ", "ҝ", "ҟ", "ҡ", "ң", "ҥ", "ҧ", "ҩ", "ҫ", "ҭ", "ү", "ұ", "ҳ", "ҵ",
    "ҷ", "ҹ", "һ", "ҽ", "ҿ", "ӏ", "ӂ", "ӄ", "ӆ", "ӈ", "ӊ", "ӌ", "ӎ", "ӑ", "ӓ", "ӕ", "ӗ", "ә",
    "ӛ", "ӝ", "ӟ", "ӡ", "ӣ", "ӥ", "ӧ", "ө", "ӫ", "ӭ", "ӯ", "ӱ", "ӳ", "ӵ", "ӷ", "ӹ", "ӻ", "ӽ",
    "ӿ", "U+2D00", "U+2D01", "U+2D02", "U+2D03", "U+2D04", "U+2D05", "U+2D06", "U+2D07",
    "U+2D08", "U+2D09", "U+2D0A", "U+2D0B", "U+2D0C", "U+2D0D", "U+2D0E", "U+2D0F", "U+2D10",
    "U+2D11", "U+2D12", "U+2D13", "U+2D14", "U+2D15", "U+2D16", "U+2D17", "U+2D18", "U+2D19",
    "U+2D1A", "U+2D1B", "U+2D1C", "U+2D1D", "U+2D1E", "U+2D1F", "U+2D20", "U+2D21", "U+2D22",
    "U+2D23", "U+2D24", "U+2D25", "U+2D27", "U+2D2D", "U+AB70", "U+AB71", "U+AB72", "U+AB73",
    "U+AB74", "U+AB75", "U+AB76", "U+AB77", "U+AB78", "U+AB79", "U+AB7A", "U+AB7B", "U+AB7C",
    "U+AB7D", "U+AB7E", "U+AB7F", "ꮀ", "ꮁ", "ꮂ", "ꮃ", "ꮄ", "ꮅ", "ꮆ", "ꮇ", "ꮈ", "ꮉ", "ꮊ", "ꮋ",
    "ꮌ", "ꮍ", "ꮎ", "ꮏ", "ꮐ", "ꮑ", "ꮒ", "ꮓ", "ꮔ", "ꮕ", "ꮖ", "ꮗ", "ꮘ", "ꮙ", "ꮚ", "ꮛ", "ꮜ", "ꮝ",
    "ꮞ", "ꮟ", "ꮠ", "ꮡ", "ꮢ", "ꮣ", "ꮤ", "ꮥ", "ꮦ", "ꮧ", "ꮨ", "ꮩ", "ꮪ", "ꮫ", "ꮬ", "ꮭ", "ꮮ", "ꮯ",
    "ꮰ", "ꮱ", "ꮲ", "ꮳ", "ꮴ", "ꮵ", "ꮶ", "ꮷ", "ꮸ", "ꮹ", "ꮺ", "ꮻ", "ꮼ", "ꮽ", "ꮾ", "ꮿ", "ᏸ", "ᏹ",
    "ᏺ", "ᏻ", "ᏼ", "ᏽ", "ა", "ბ", "გ", "დ", "ე", "ვ", "ზ", "თ", "ი", "კ", "ლ", "მ", "ნ", "ო",
    "პ", "ჟ", "რ", "ს", "ტ", "უ", "ფ", "ქ", "ღ", "ყ", "შ", "ჩ", "ც", "ძ", "წ", "ჭ", "ხ", "ჯ",
    "ჰ", "ჱ", "ჲ", "ჳ", "ჴ", "ჵ", "ჶ", "ჷ", "ჸ", "ჹ", "ჺ", "ჽ", "ჾ", "ჿ", "ẁ", "ẃ", "ẅ", "ẇ",
    "ẉ", "ẋ", "ẍ", "ẏ", "ẑ", "ẓ", "ẕ", "ß", "ạ", "ả", "ấ", "ầ", "ẩ", "ẫ", "ậ", "ắ", "ằ", "ẳ",
    "ẵ", "ặ", "ẹ", "ẻ", "ẽ", "ế", "ề", "ể", "ễ", "ệ", "ỉ", "ị", "ọ", "ỏ", "ố", "ồ", "ổ", "ỗ",
    "ộ", "ớ", "ờ", "ở", "ỡ", "ợ", "ụ", "ủ", "ứ", "ừ", "ử", "ữ", "ự", "ỳ", "ỵ", "ỷ", "ỹ", "ỻ",
    "ỽ", "ỿ", "ᾀ", "ᾁ", "ᾂ", "ᾃ", "ᾄ", "ᾅ", "ᾆ", "ᾇ", "ᾐ", "ᾑ", "ᾒ", "ᾓ", "ᾔ", "ᾕ", "ᾖ", "ᾗ",
    "ᾠ", "ᾡ", "ᾢ", "ᾣ", "ᾤ", "ᾥ", "ᾦ", "ᾧ", "ᾰ", "ᾱ", "U+1F70", "U+1F71", "ᾳ", "U+1F72",
    "U+1F73", "U+1F74", "U+1F75", "ῃ", "ῐ", "ῑ", "U+1F76", "U+1F77", "ῠ", "ῡ", "U+1F7A",
    "U+1F7B", "ῥ", "U+1F78", "U+1F79", "U+1F7C", "U+1F7D", "ῳ", "ↄ", "ⓐ", "ⓑ", "ⓒ", "ⓓ", "ⓔ",
    "ⓕ", "ⓖ", "ⓗ", "ⓘ", "ⓙ", "ⓚ", "ⓛ", "ⓜ", "ⓝ", "ⓞ", "ⓟ", "ⓠ", "ⓡ", "ⓢ", "ⓣ", "ⓤ", "ⓥ", "ⓦ",
    "ⓧ", "ⓨ", "ⓩ", "ⲁ", "ⲃ", "ⲅ", "ⲇ", "ⲉ", "ⲋ", "ⲍ", "ⲏ", "ⲑ", "ⲓ", "ⲕ", "ⲗ", "ⲙ", "ⲛ", "ⲝ",
    "ⲟ", "ⲡ", "ⲣ", "ⲥ", "ⲧ", "ⲩ", "ⲫ", "ⲭ", "ⲯ", "ⲱ", "ⲳ", "ⲵ", "ⲷ", "ⲹ", "ⲻ", "ⲽ", "ⲿ", "ⳁ",
    "ⳃ", "ⳅ", "ⳇ", "ⳉ", "ⳋ", "ⳍ", "ⳏ", "ⳑ", "ⳓ", "ⳕ", "ⳗ", "ⳙ", "ⳛ", "ⳝ", "ⳟ", "ⳡ", "ⳣ", "ⳬ",
    "ⳮ", "ⳳ", "ꚁ", "ꚃ", "ꚅ", "ꚇ", "ꚉ", "ꚋ", "ꚍ", "ꚏ", "ꚑ", "ꚓ", "ꚕ", "ꚗ", "ꚙ", "ꚛ", "ꞁ", "ꞃ",
    "ꞅ", "ꞇ", "ꞌ", "U+0265", "ꞑ", "ꞓ", "ꞗ", "ꞙ", "ꞛ", "ꞝ", "ꞟ", "ꞡ", "ꞣ", "ꞥ", "ꞧ", "ꞩ",
    "U+0266", "U+025C", "U+0261", "U+026C", "U+026A", "ʞ", "ʇ", "ʝ", "U+AB53", "ꞵ", "ꞷ", "ꞹ",
    "ꞻ", "ꞽ", "ꞿ", "ꟁ", "ꟃ", "ꞔ", "ʂ", "ᶎ", "ꟈ", "ꟊ", "ꟑ", "ꟗ", "ꟙ", "ꟶ">>

\* the lower-case letter of each upper-case letter
LowerTable ==
  [c \in {UpperChars[i] : i \in 1..Len(UpperChars)} |->
     LowerChars[CHOOSE i \in 1..Len(UpperChars) : UpperChars[i] = c]]

UpperSet == DOMAIN LowerTable

LowerChar(c) == IF c \in UpperSet THEN LowerTable[c] ELSE c

\* the cased characters that are not case-ignorable
Cased ==
  {"A", "B", "C", "D", "E", "F", "G", "H", "I", "J", "K", "L", "M", "N", "O", "P", "Q", "R",
   "S", "T", "U", "V", "W", "X", "Y", "Z", "a", "b", "c", "d", "e", "f", "g", "h", "i", "j",
   "k", "l", "m", "n", "o", "p", "q", "r", "s", "t", "u", "v", "w", "x", "y", "z", "ª", "µ",
   "º", "À", "Á", "Â", "Ã", "Ä", "Å", "Æ", "Ç", "È", "É", "Ê", "Ë", "Ì", "Í", "Î", "Ï", "Ð",
   "Ñ", "Ò", "Ó", "Ô", "Õ", "Ö", "Ø", "Ù", "Ú", "Û", "Ü", "Ý", "Þ", "ß", "à", "á", "â", "ã",
   "ä", "å", "æ", "ç", "è", "é", "ê", "ë", "ì", "í", "î", "ï", "ð", "ñ", "ò", "ó", "ô", "õ",
   "ö", "ø", "ù", "ú", "û", "ü", "ý", "þ", "ÿ", "ƀ", "Ɓ", "Ƃ", "ƃ", "Ƅ", "ƅ", "Ɔ", "Ƈ", "ƈ",
   "Ɖ", "Ɗ", "Ƌ", "ƌ", "ƍ", "Ǝ", "Ə", "Ɛ", "Ƒ", "ƒ", "Ɠ", "Ɣ", "ƕ", "Ɩ", "Ɨ", "Ƙ", "ƙ", "ƚ",
   "ƛ", "Ɯ", "Ɲ", "ƞ", "Ɵ", "Ơ", "ơ", "Ƣ", "ƣ", "Ƥ", "ƥ", "Ʀ", "Ƨ", "ƨ", "Ʃ", "ƪ", "ƫ", "Ƭ",
   "ƭ", "Ʈ", "Ư", "ư", "Ʊ", "Ʋ", "Ƴ", "ƴ", "Ƶ", "ƶ", "Ʒ", "Ƹ", "ƹ", "ƺ", "Ƽ", "ƽ", "ƾ", "ƿ",
   "Ǆ", "ǅ", "ǆ", "Ǉ", "ǈ", "ǉ", "Ǌ", "ǋ", "ǌ", "Ǎ", "ǎ", "Ǐ", "ǐ", "Ǒ", "ǒ", "Ǔ", "ǔ", "Ǖ",
   "ǖ", "Ǘ", "ǘ", "Ǚ", "ǚ", "Ǜ", "ǜ", "ǝ", "Ǟ", "ǟ", "Ǡ", "ǡ", "Ǣ", "ǣ", "Ǥ", "ǥ", "Ǧ", "ǧ",
   "Ǩ", "ǩ", "Ǫ", "ǫ", "Ǭ", "ǭ", "Ǯ", "ǯ", "ǰ", "Ǳ", "ǲ", "ǳ", "Ǵ", "ǵ", "Ƕ", "Ƿ", "Ǹ", "ǹ",
   "Ǻ", "ǻ", "Ǽ", "ǽ", "Ǿ", "ǿ", "ʀ", "ʁ", "ʂ", "ʃ", "ʄ", "ʅ", "ʆ", "ʇ", "ʈ", "ʉ", "ʊ", "ʋ",
   "ʌ", "ʍ", "ʎ", "ʏ", "ʐ", "ʑ", "ʒ", "ʓ", "ʕ", "ʖ", "ʗ", "ʘ", "ʙ", "ʚ", "ʛ", "ʜ", "ʝ", "ʞ",
   "ʟ", "ʠ", "ʡ", "ʢ", "ʣ", "ʤ", "ʥ", "ʦ", "ʧ", "ʨ", "ʩ", "ʪ", "ʫ", "ʬ", "ʭ", "ʮ", "ʯ", "Ά",
   "Έ", "Ή", "Ί", "Ό", "Ύ", "Ώ", "ΐ", "Α", "Β", "Γ", "Δ", "Ε", "Ζ", "Η", "Θ", "Ι", "Κ", "Λ",
   "Μ", "Ν", "Ξ", "Ο", "Π", "Ρ", "Σ", "Τ", "Υ", "Φ", "Χ", "Ψ", "Ω", "Ϊ", "Ϋ", "ά", "έ", "ή",
   "ί", "ΰ", "α", "β", "γ", "δ", "ε", "ζ", "η", "θ", "ι", "κ", "λ", "μ", "ν", "ξ", "ο", "π",
   "ρ", "ς", "σ", "τ", "υ", "φ", "χ", "ψ", "ω", "ϊ", "ϋ", "ό", "ύ", "ώ", "Ϗ", "ϐ", "ϑ", "ϒ",
   "ϓ", "ϔ", "ϕ", "ϖ", "ϗ", "Ϙ", "ϙ", "Ϛ", "ϛ", "Ϝ", "ϝ", "Ϟ", "ϟ", "Ϡ", "ϡ", "Ϣ", "ϣ", "Ϥ",
   "ϥ", "Ϧ", "ϧ", "Ϩ", "ϩ", "Ϫ", "ϫ", "Ϭ", "ϭ", "Ϯ", "ϯ", "ϰ", "ϱ", "ϲ", "ϳ", "ϴ", "ϵ", "Ϸ",
   "ϸ", "Ϲ", "Ϻ", "ϻ", "ϼ", "Ͻ", "Ͼ", "Ͽ", "Ҁ", "ҁ", "Ҋ", "ҋ", "Ҍ", "ҍ", "Ҏ", "ҏ", "Ґ", "ґ",
   "Ғ", "ғ", "Ҕ", "ҕ", "Җ", "җ", "Ҙ", "ҙ", "Қ", "қ", "Ҝ", "ҝ", "Ҟ", "ҟ", "Ҡ", "ҡ", "Ң", "ң",
   "Ҥ", "ҥ", "Ҧ", "ҧ", "Ҩ", "ҩ", "Ҫ", "ҫ", "Ҭ", "ҭ", "Ү", "ү", "Ұ", "ұ", "Ҳ", "ҳ", "Ҵ", "ҵ",
   "Ҷ", "ҷ", "Ҹ", "ҹ", "Һ", "һ", "Ҽ", "ҽ", "Ҿ", "ҿ", "Ӏ", "Ӂ", "ӂ", "Ӄ", "ӄ", "Ӆ", "ӆ", "Ӈ",
   "ӈ", "Ӊ", "ӊ", "Ӌ", "ӌ", "Ӎ", "ӎ", "ӏ", "Ӑ", "ӑ", "Ӓ", "ӓ", "Ӕ", "ӕ", "Ӗ", "ӗ", "Ә", "ә",
   "Ӛ", "ӛ", "Ӝ", "ӝ", "Ӟ", "ӟ", "Ӡ", "ӡ", "Ӣ", "ӣ", "Ӥ", "ӥ", "Ӧ", "ӧ", "Ө", "ө", "Ӫ", "ӫ",
   "Ӭ", "ӭ", "Ӯ", "ӯ", "Ӱ", "ӱ", "Ӳ", "ӳ", "Ӵ", "ӵ", "Ӷ", "ӷ", "Ӹ", "ӹ", "Ӻ", "ӻ", "Ӽ", "ӽ",
   "Ӿ", "ӿ", "ր", "ց", "ւ", "փ", "ք", "օ", "ֆ", "և", "ֈ", "Ⴀ", "Ⴁ", "Ⴂ", "Ⴃ", "Ⴄ", "Ⴅ", "Ⴆ",
   "Ⴇ", "Ⴈ", "Ⴉ", "Ⴊ", "Ⴋ", "Ⴌ", "Ⴍ", "Ⴎ", "Ⴏ", "Ⴐ", "Ⴑ", "Ⴒ", "Ⴓ", "Ⴔ", "Ⴕ", "Ⴖ", "Ⴗ", "Ⴘ",
   "Ⴙ", "Ⴚ", "Ⴛ", "Ⴜ", "Ⴝ", "Ⴞ", "Ⴟ", "Ⴠ", "Ⴡ", "Ⴢ", "Ⴣ", "Ⴤ", "Ⴥ", "Ⴧ", "Ⴭ", "ა", "ბ", "გ",
   "დ", "ე", "ვ", "ზ", "თ", "ი", "კ", "ლ", "მ", "ნ", "ო", "პ", "ჟ", "რ", "ს", "ტ", "უ", "ფ",
   "ქ", "ღ", "ყ", "შ", "ჩ", "ც", "ძ", "წ", "ჭ", "ხ", "ჯ", "ჰ", "ჱ", "ჲ", "ჳ", "ჴ", "ჵ", "ჶ",
   "ჷ", "ჸ", "ჹ", "ჺ", "ჽ", "ჾ", "ჿ", "Ꭰ", "Ꭱ", "Ꭲ", "Ꭳ", "Ꭴ", "Ꭵ", "Ꭶ", "Ꭷ", "Ꭸ", "Ꭹ", "Ꭺ",
   "Ꭻ", "Ꭼ", "Ꭽ", "Ꭾ", "Ꭿ", "Ꮀ", "Ꮁ", "Ꮂ", "Ꮃ", "Ꮄ", "Ꮅ", "Ꮆ", "Ꮇ", "Ꮈ", "Ꮉ", "Ꮊ", "Ꮋ", "Ꮌ",
   "Ꮍ", "Ꮎ", "Ꮏ", "Ꮐ", "Ꮑ", "Ꮒ", "Ꮓ", "Ꮔ", "Ꮕ", "Ꮖ", "Ꮗ", "Ꮘ", "Ꮙ", "Ꮚ", "Ꮛ", "Ꮜ", "Ꮝ", "Ꮞ",
   "Ꮟ", "Ꮠ", "Ꮡ", "Ꮢ", "Ꮣ", "Ꮤ", "Ꮥ", "Ꮦ", "Ꮧ", "Ꮨ", "Ꮩ", "Ꮪ", "Ꮫ", "Ꮬ", "Ꮭ", "Ꮮ", "Ꮯ", "Ꮰ",
   "Ꮱ", "Ꮲ", "Ꮳ", "Ꮴ", "Ꮵ", "Ꮶ", "Ꮷ", "Ꮸ", "Ꮹ", "Ꮺ", "Ꮻ", "Ꮼ", "Ꮽ", "Ꮾ", "Ꮿ", "Ᏸ", "Ᏹ", "Ᏺ",
   "Ᏻ", "Ᏼ", "Ᏽ", "ᏸ", "ᏹ", "ᏺ", "ᏻ", "ᏼ", "ᏽ", "ᲀ", "ᲁ", "ᲂ", "ᲃ", "ᲄ", "ᲅ", "ᲆ", "ᲇ", "ᲈ",
   "Ა", "Ბ", "Გ", "Დ", "Ე", "Ვ", "Ზ", "Თ", "Ი", "Კ", "Ლ", "Მ", "Ნ", "Ო", "Პ", "Ჟ", "Რ", "Ს",
   "Ტ", "Უ", "Ფ", "Ქ", "Ღ", "Ყ", "Შ", "Ჩ", "Ც", "Ძ", "Წ", "Ჭ", "Ხ", "Ჯ", "Ჰ", "Ჱ", "Ჲ", "Ჳ",
   "Ჴ", "Ჵ", "Ჶ", "Ჷ", "Ჸ", "Ჹ", "Ჺ", "Ჽ", "Ჾ", "Ჿ", "ᶀ", "ᶁ", "ᶂ", "ᶃ", "ᶄ", "ᶅ", "ᶆ", "ᶇ",
   "ᶈ", "ᶉ", "ᶊ", "ᶋ", "ᶌ", "ᶍ", "ᶎ", "ᶏ", "ᶐ", "ᶑ", "ᶒ", "ᶓ", "ᶔ", "ᶕ", "ᶖ", "ᶗ", "ᶘ", "ᶙ",
   "ᶚ", "Ẁ", "ẁ", "Ẃ", "ẃ", "Ẅ", "ẅ", "Ẇ", "ẇ", "Ẉ", "ẉ", "Ẋ", "ẋ", "Ẍ", "ẍ", "Ẏ", "ẏ", "Ẑ",
   "ẑ", "Ẓ", "ẓ", "Ẕ", "ẕ", "ẖ", "ẗ", "ẘ", "ẙ", "ẚ", "ẛ", "ẜ", "ẝ", "ẞ", "ẟ", "Ạ", "ạ", "Ả",
   "ả", "Ấ", "ấ", "Ầ", "ầ", "Ẩ", "ẩ", "Ẫ", "ẫ", "Ậ", "ậ", "Ắ", "ắ", "Ằ", "ằ", "Ẳ", "ẳ", "Ẵ",
   "ẵ", "Ặ", "ặ", "Ẹ", "ẹ", "Ẻ", "ẻ", "Ẽ", "ẽ", "Ế", "ế", "Ề", "ề", "Ể", "ể", "Ễ", "ễ", "Ệ",
   "ệ", "Ỉ", "ỉ", "Ị", "ị", "Ọ", "ọ", "Ỏ", "ỏ", "Ố", "ố", "Ồ", "ồ", "Ổ", "ổ", "Ỗ", "ỗ", "Ộ",
   "ộ", "Ớ", "ớ", "Ờ", "ờ", "Ở", "ở", "Ỡ", "ỡ", "Ợ", "ợ", "Ụ", "ụ", "Ủ", "ủ", "Ứ", "ứ", "Ừ",
   "ừ", "Ử", "ử", "Ữ", "ữ", "Ự", "ự", "Ỳ", "ỳ", "Ỵ", "ỵ", "Ỷ", "ỷ", "Ỹ", "ỹ", "Ỻ", "ỻ", "Ỽ",
   "ỽ", "Ỿ", "ỿ", "ᾀ", "ᾁ", "ᾂ", "ᾃ", "ᾄ", "ᾅ", "ᾆ", "ᾇ", "ᾈ", "ᾉ", "ᾊ", "ᾋ", "ᾌ", "ᾍ", "ᾎ",
   "ᾏ", "ᾐ", "ᾑ", "ᾒ", "ᾓ", "ᾔ", "ᾕ", "ᾖ", "ᾗ", "ᾘ", "ᾙ", "ᾚ", "ᾛ", "ᾜ", "ᾝ", "ᾞ", "ᾟ", "ᾠ",
   "ᾡ", "ᾢ", "ᾣ", "ᾤ", "ᾥ", "ᾦ", "ᾧ", "ᾨ", "ᾩ", "ᾪ", "ᾫ", "ᾬ", "ᾭ", "ᾮ", "ᾯ", "ᾰ", "ᾱ", "ᾲ",
   "ᾳ", "ᾴ", "ᾶ", "ᾷ", "Ᾰ", "Ᾱ", "Ὰ", "Ά", "ᾼ", "ι", "ῂ", "ῃ", "ῄ", "ῆ", "ῇ", "Ὲ", "Έ", "Ὴ",
   "Ή", "ῌ", "ῐ", "ῑ", "ῒ", "ΐ", "ῖ", "ῗ", "Ῐ", "Ῑ", "Ὶ", "Ί", "ῠ", "ῡ", "ῢ", "ΰ", "ῤ", "ῥ",
   "ῦ", "ῧ", "Ῠ", "Ῡ", "Ὺ", "Ύ", "Ῥ", "ῲ", "ῳ", "ῴ", "ῶ", "ῷ", "Ὸ", "Ό", "Ὼ", "Ώ", "ῼ", "Ↄ",
   "ↄ", "Ⓐ", "Ⓑ", "Ⓒ", "Ⓓ", "Ⓔ", "Ⓕ", "Ⓖ", "Ⓗ", "Ⓘ", "Ⓙ", "Ⓚ", "Ⓛ", "Ⓜ", "Ⓝ", "Ⓞ", "Ⓟ", "Ⓠ",
   "Ⓡ", "Ⓢ", "Ⓣ", "Ⓤ", "Ⓥ", "Ⓦ", "Ⓧ", "Ⓨ", "Ⓩ", "ⓐ", "ⓑ", "ⓒ", "ⓓ", "ⓔ", "ⓕ", "ⓖ", "ⓗ", "ⓘ",
   "ⓙ", "ⓚ", "ⓛ", "ⓜ", "ⓝ", "ⓞ", "ⓟ", "ⓠ", "ⓡ", "ⓢ", "ⓣ", "ⓤ", "ⓥ", "ⓦ", "ⓧ", "ⓨ", "ⓩ", "Ⲁ",
   "ⲁ", "Ⲃ", "ⲃ", "Ⲅ", "ⲅ", "Ⲇ", "ⲇ", "Ⲉ", "ⲉ", "Ⲋ", "ⲋ", "Ⲍ", "ⲍ", "Ⲏ", "ⲏ", "Ⲑ", "ⲑ", "Ⲓ",
   "ⲓ", "Ⲕ", "ⲕ", "Ⲗ", "ⲗ", "Ⲙ", "ⲙ", "Ⲛ", "ⲛ", "Ⲝ", "ⲝ", "Ⲟ", "ⲟ", "Ⲡ", "ⲡ", "Ⲣ", "ⲣ", "Ⲥ",
   "ⲥ", "Ⲧ", "ⲧ", "Ⲩ", "ⲩ", "Ⲫ", "ⲫ", "Ⲭ", "ⲭ", "Ⲯ", "ⲯ", "Ⲱ", "ⲱ", "Ⲳ", "ⲳ", "Ⲵ", "ⲵ", "Ⲷ",
   "ⲷ", "Ⲹ", "ⲹ", "Ⲻ", "ⲻ", "Ⲽ", "ⲽ", "Ⲿ", "ⲿ", "Ⳁ", "ⳁ", "Ⳃ", "ⳃ", "Ⳅ", "ⳅ", "Ⳇ", "ⳇ", "Ⳉ",
   "ⳉ", "Ⳋ", "ⳋ", "Ⳍ", "ⳍ", "Ⳏ", "ⳏ", "Ⳑ", "ⳑ", "Ⳓ", "ⳓ", "Ⳕ", "ⳕ", "Ⳗ", "ⳗ", "Ⳙ", "ⳙ", "Ⳛ",
   "ⳛ", "Ⳝ", "ⳝ", "Ⳟ", "ⳟ", "Ⳡ", "ⳡ", "Ⳣ", "ⳣ", "ⳤ", "Ⳬ", "ⳬ", "Ⳮ", "ⳮ", "Ⳳ", "ⳳ", "Ꚁ", "ꚁ",
   "Ꚃ", "ꚃ", "Ꚅ", "ꚅ", "Ꚇ", "ꚇ", "Ꚉ", "ꚉ", "Ꚋ", "ꚋ", "Ꚍ", "ꚍ", "Ꚏ", "ꚏ", "Ꚑ", "ꚑ", "Ꚓ", "ꚓ",
   "Ꚕ", "ꚕ", "Ꚗ", "ꚗ", "Ꚙ", "ꚙ", "Ꚛ", "ꚛ", "Ꞁ", "ꞁ", "Ꞃ", "ꞃ", "Ꞅ", "ꞅ", "Ꞇ", "ꞇ", "Ꞌ", "ꞌ",
   "Ɥ", "ꞎ", "Ꞑ", "ꞑ", "Ꞓ", "ꞓ", "ꞔ", "ꞕ", "Ꞗ", "ꞗ", "Ꞙ", "ꞙ", "Ꞛ", "ꞛ", "Ꞝ", "ꞝ", "Ꞟ", "ꞟ",
   "Ꞡ", "ꞡ", "Ꞣ", "ꞣ", "Ꞥ", "ꞥ", "Ꞧ", "ꞧ", "Ꞩ", "ꞩ", "Ɦ", "Ɜ", "Ɡ", "Ɬ", "Ɪ", "ꞯ", "Ʞ", "Ʇ",
   "Ʝ", "Ꭓ", "Ꞵ", "ꞵ", "Ꞷ", "ꞷ", "Ꞹ", "ꞹ", "Ꞻ", "ꞻ", "Ꞽ", "ꞽ", "Ꞿ", "ꞿ", "Ꟁ", "ꟁ", "Ꟃ", "ꟃ",
   "Ꞔ", "Ʂ", "Ᶎ", "Ꟈ", "ꟈ", "Ꟊ", "ꟊ", "Ꟑ", "ꟑ", "ꟓ", "ꟕ", "Ꟗ", "ꟗ", "Ꟙ", "ꟙ", "Ꟶ", "ꟶ", "ꟺ",
   "ꮀ", "ꮁ", "ꮂ", "ꮃ", "ꮄ", "ꮅ", "ꮆ", "ꮇ", "ꮈ", "ꮉ", "ꮊ", "ꮋ", "ꮌ", "ꮍ", "ꮎ", "ꮏ", "ꮐ", "ꮑ",
   "ꮒ", "ꮓ", "ꮔ", "ꮕ", "ꮖ", "ꮗ", "ꮘ", "ꮙ", "ꮚ", "ꮛ", "ꮜ", "ꮝ", "ꮞ", "ꮟ", "ꮠ", "ꮡ", "ꮢ", "ꮣ",
   "ꮤ", "ꮥ", "ꮦ", "ꮧ", "ꮨ", "ꮩ", "ꮪ", "ꮫ", "ꮬ", "ꮭ", "ꮮ", "ꮯ", "ꮰ", "ꮱ", "ꮲ", "ꮳ", "ꮴ", "ꮵ",
   "ꮶ", "ꮷ", "ꮸ", "ꮹ", "ꮺ", "ꮻ", "ꮼ", "ꮽ", "ꮾ", "ꮿ"}

\* the case-ignorable characters
CaseIgnorable ==
  {"'", ".", ":", "^", "¨", "­", "¯", "´", "·", "¸", "ʰ", "ʱ", "ʲ", "ʳ", "ʴ", "ʵ", "ʶ", "ʷ",
   "ʸ", "ʹ", "ʺ", "ʻ", "ʼ", "ʽ", "ʾ", "ʿ", "ˀ", "ˁ", "˂", "˃", "˄", "˅", "ˆ", "ˇ", "ˈ", "ˉ",
   "ˊ", "ˋ", "ˌ", "ˍ", "ˎ", "ˏ", "ː", "ˑ", "˒", "˓", "˔", "˕", "˖", "˗", "˘", "˙", "˚", "˛",
   "˜", "˝", "˞", "˟", "ˠ", "ˡ", "ˢ", "ˣ", "ˤ", "˥", "˦", "˧", "˨", "˩", "˪", "˫", "ˬ", "˭",
   "ˮ", "˯", "˰", "˱", "˲", "˳", "˴", "˵", "˶", "˷", "˸", "˹", "˺", "˻", "˼", "˽", "˾", "˿",
   "΄", "΅", "·", "҃", "҄", "҅", "҆", "҇", "҈", "҉", "֑", "֒", "֓", "֔", "֕", "֖", "֗", "֘",
   "֙", "֚", "֛", "֜", "֝", "֞", "֟", "֠", "֡", "֢", "֣", "֤", "֥", "֦", "֧", "֨", "֩", "֪",
   "֫", "֬", "֭", "֮", "֯", "ְ", "ֱ", "ֲ", "ֳ", "ִ", "ֵ", "ֶ", "ַ", "ָ", "ֹ", "ֺ", "ֻ", "ּ",
   "ֽ", "ֿ", "ׁ", "ׂ", "ׄ", "ׅ", "ׇ", "״", "ۖ", "ۗ", "ۘ", "ۙ", "ۚ", "ۛ", "ۜ", "۝", "۟", "۠",
   "ۡ", "ۢ", "ۣ", "ۤ", "ۥ", "ۦ", "ۧ", "ۨ", "۪", "۫", "۬", "ۭ", "ަ", "ާ", "ި", "ީ", "ު", "ޫ",
   "ެ", "ޭ", "ޮ", "ޯ", "ް", "߫", "߬", "߭", "߮", "߯", "߰", "߱", "߲", "߳", "ߴ", "ߵ", "ߺ", "߽",
   "࢈", "࢐", "࢑", "࢘", "࢙", "࢚", "࢛", "࢜", "࢝", "࢞", "࢟", "ࣉ", "࣊", "࣋", "࣌", "࣍", "࣎", "࣏",
   "࣐", "࣑", "࣒", "࣓", "ࣔ", "ࣕ", "ࣖ", "ࣗ", "ࣘ", "ࣙ", "ࣚ", "ࣛ", "ࣜ", "ࣝ", "ࣞ", "ࣟ", "࣠", "࣡",
   "࣢", "ࣣ", "ࣤ", "ࣥ", "ࣦ", "ࣧ", "ࣨ", "ࣩ", "࣪", "࣫", "࣬", "࣭", "࣮", "࣯", "ࣰ", "ࣱ", "ࣲ", "ࣳ",
   "ࣴ", "ࣵ", "ࣶ", "ࣷ", "ࣸ", "ࣹ", "ࣺ", "ࣻ", "ࣼ", "ࣽ", "ࣾ", "ࣿ", "ঁ", "়", "ু", "ূ", "ৃ", "ৄ",
   "্", "ৢ", "ৣ", "৾", "ઁ", "ં", "઼", "ુ", "ૂ", "ૃ", "ૄ", "ૅ", "ે", "ૈ", "્", "ૢ", "ૣ", "ૺ",
   "ૻ", "ૼ", "૽", "૾", "૿", "ஂ", "ீ", "்", "ಁ", "಼", "ಿ", "ೆ", "ೌ", "್", "ೢ", "ೣ", "ඁ", "්",
   "ි", "ී", "ු", "ූ", "ັ", "ິ", "ີ", "ຶ", "ື", "ຸ", "ູ", "຺", "ົ", "ຼ", "ໆ", "່", "້", "໊",
   "໋", "໌", "ໍ", "ྀ", "ཱྀ", "ྂ", "ྃ", "྄", "྆", "྇", "ྍ", "ྎ", "ྏ", "ྐ", "ྑ", "ྒ", "ྒྷ", "ྔ",
   "ྕ", "ྖ", "ྗ", "ྙ", "ྚ", "ྛ", "ྜ", "ྜྷ", "ྞ", "ྟ", "ྠ", "ྡ", "ྡྷ", "ྣ", "ྤ", "ྥ", "ྦ", "ྦྷ",
   "ྨ", "ྩ", "ྪ", "ྫ", "ྫྷ", "ྭ", "ྮ", "ྯ", "ྰ", "ྱ", "ྲ", "ླ", "ྴ", "ྵ", "ྶ", "ྷ", "ྸ", "ྐྵ",
   "ྺ", "ྻ", "ྼ", "࿆", "ႂ", "ႅ", "ႆ", "ႍ", "ႝ", "ჼ", "឴", "឵", "ិ", "ី", "ឹ", "ឺ", "ុ", "ូ",
   "ួ", "ំ", "៉", "៊", "់", "៌", "៍", "៎", "៏", "័", "៑", "្", "៓", "ៗ", "៝", "ᢅ", "ᢆ", "ᢩ",
   "ᪧ", "᪰", "᪱", "᪲", "᪳", "᪴", "᪵", "᪶", "᪷", "᪸", "᪹", "᪺", "᪻", "᪼", "᪽", "᪾", "ᪿ", "ᫀ",
   "᫁", "᫂", "᫃", "᫄", "᫅", "᫆", "᫇", "᫈", "᫉", "᫊", "᫋", "ᫌ", "ᫍ", "ᫎ", "ᮀ", "ᮁ", "ᮢ", "ᮣ",
   "ᮤ", "ᮥ", "ᮨ", "ᮩ", "᮫", "ᮬ", "ᮭ", "᯦", "ᯨ", "ᯩ", "ᯭ", "ᯯ", "ᯰ", "ᯱ", "᳐", "᳑", "᳒", "᳔",
   "᳕", "᳖", "᳗", "᳘", "᳙", "᳚", "᳛", "᳜", "᳝", "᳞", "᳟", "᳠", "᳢", "᳣", "᳤", "᳥", "᳦", "᳧",
   "᳨", "᳭", "᳴", "᳸", "᳹", "ᶛ", "ᶜ", "ᶝ", "ᶞ", "ᶟ", "ᶠ", "ᶡ", "ᶢ", "ᶣ", "ᶤ", "ᶥ", "ᶦ", "ᶧ",
   "ᶨ", "ᶩ", "ᶪ", "ᶫ", "ᶬ", "ᶭ", "ᶮ", "ᶯ", "ᶰ", "ᶱ", "ᶲ", "ᶳ", "ᶴ", "ᶵ", "ᶶ", "ᶷ", "ᶸ", "ᶹ",
   "ᶺ", "ᶻ", "ᶼ", "ᶽ", "ᶾ", "ᶿ", "᷀", "᷁", "᷂", "᷃", "᷄", "᷅", "᷆", "᷇", "᷈", "᷉", "᷊", "᷋",
   "᷌", "᷍", "᷎", "᷏", "᷐", "᷑", "᷒", "ᷓ", "ᷔ", "ᷕ", "ᷖ", "ᷗ", "ᷘ", "ᷙ", "ᷚ", "ᷛ", "ᷜ", "ᷝ",
   "ᷞ", "ᷟ", "ᷠ", "ᷡ", "ᷢ", "ᷣ", "ᷤ", "ᷥ", "ᷦ", "ᷧ", "ᷨ", "ᷩ", "ᷪ", "ᷫ", "ᷬ", "ᷭ", "ᷮ", "ᷯ",
   "ᷰ", "ᷱ", "ᷲ", "ᷳ", "ᷴ", "᷵", "᷶", "᷷", "᷸", "᷹", "᷺", "᷻", "᷼", "᷽", "᷾", "᷿", "᾽", "᾿",
   "῀", "῁", "῍", "῎", "῏", "῝", "῞", "῟", "῭", "΅", "`", "´", "῾", "ₐ", "ₑ", "ₒ", "ₓ", "ₔ",
   "ₕ", "ₖ", "ₗ", "ₘ", "ₙ", "ₚ", "ₛ", "ₜ", "⃐", "⃑", "⃒", "⃓", "⃔", "⃕", "⃖", "⃗", "⃘", "⃙",
   "⃚", "⃛", "⃜", "⃝", "⃞", "⃟", "⃠", "⃡", "⃢", "⃣", "⃤", "⃥", "⃦", "⃧", "⃨", "⃩", "⃪", "⃫",
   "⃬", "⃭", "⃮", "⃯", "⃰", "⳯", "⳰", "⳱", "ⷠ", "ⷡ", "ⷢ", "ⷣ", "ⷤ", "ⷥ", "ⷦ", "ⷧ", "ⷨ", "ⷩ",
   "ⷪ", "ⷫ", "ⷬ", "ⷭ", "ⷮ", "ⷯ", "ⷰ", "ⷱ", "ⷲ", "ⷳ", "ⷴ", "ⷵ", "ⷶ", "ⷷ", "ⷸ", "ⷹ", "ⷺ", "ⷻ",
   "ⷼ", "ⷽ", "ⷾ", "ⷿ", "゙", "゚", "゛", "゜", "ゝ", "ゞ", "ー", "ヽ", "ヾ", "ꓸ", "ꓹ", "ꓺ", "ꓻ", "ꓼ",
   "ꓽ", "ꚜ", "ꚝ", "ꚞ", "ꚟ", "꛰", "꛱", "ꞈ", "꞉", "꞊", "ꟲ", "ꟳ", "ꟴ", "ꟸ", "ꟹ", "꣄", "ꣅ", "꣠",
   "꣡", "꣢", "꣣", "꣤", "꣥", "꣦", "꣧", "꣨", "꣩", "꣪", "꣫", "꣬", "꣭", "꣮", "꣯", "꣰", "꣱", "ꣿ",
   "ꦀ", "ꦁ", "ꦂ", "꦳", "ꦶ", "ꦷ", "ꦸ", "ꦹ", "ꦼ", "ꦽ", "ꧏ", "ꧥ", "ꧦ", "ꪰ", "ꪲ", "ꪳ", "ꪴ", "ꪷ",
   "ꪸ", "ꪾ", "꪿", "꫁", "ꫝ", "ꫬ", "ꫭ", "ꫳ", "ꫴ", "꫶", "ꯥ", "ꯨ", "꯭", "﮲", "﮳", "﮴", "﮵", "﮶",
   "﮷", "﮸", "﮹", "﮺", "﮻", "﮼", "﮽", "﮾", "﮿", "﯀", "﯁", "﯂", "﻿", "ﾞ", "ﾟ", "￣", "￹", "￺", "￻"}

\* s[i], a capital sigma, ends a word: the nearest character before it that
\* is not case-ignorable is cased, the nearest such character after it is not
FinalSigma(s, i) ==
  /\ \E j \in 1..(i - 1) :
       /\ s[j] \in Cased
       /\ \A k \in (j + 1)..(i - 1) : s[k] \in CaseIgnorable
  /\ ~\E j \in (i + 1)..Len(s) :
        /\ s[j] \in Cased
        /\ \A k \in (i + 1)..(j - 1) : s[k] \in CaseIgnorable

\* str.lower()
Lower(s) ==
  [i \in 1..Len(s) |->
     IF s[i] = "Σ" THEN (IF FinalSigma(s, i) THEN "ς" ELSE "σ") ELSE LowerChar(s[i])]

\* c in s
Contains(s, c) == \E i \in 1..Len(s) : s[i] = c

\* s.find(c) as a 1-based index; only used when c is in s
IndexOf(s, c) == CHOOSE i \in 1..Len(s) : s[i] = c /\ \A j \in 1..(i - 1) : s[j] # c

\* s with the characters of `chars` dropped from both ends
StripOf(s, chars) ==
  IF \A i \in 1..Len(s) : s[i] \in chars THEN <<>>
  ELSE IF s[1] \notin chars /\ s[Len(s)] \notin chars THEN s
  ELSE LET first == CHOOSE i \in 1..Len(s) :
                      s[i] \notin chars /\ \A j \in 1..(i - 1) : s[j] \in chars
           last  == CHOOSE i \in 1..Len(s) :
                      s[i] \notin chars /\ \A j \in (i + 1)..Len(s) : s[j] \in chars
       IN  SubSeq(s, first, last)

\* str.strip()
Strip(s) == StripOf(s, Whitespace)

\* s.replace(a, b) for single characters
Replace(s, a, b) == [i \in 1..Len(s) |-> IF s[i] = a THEN b ELSE s[i]]

\* s.split(c): the list of the pieces of s between the occurrences of c
RECURSIVE Split(_, _)
Split(s, c) ==
  IF ~Contains(s, c) THEN <<s>>
  ELSE LET i == IndexOf(s, c)
       IN  <<SubSeq(s, 1, i - 1)>> \o Split(SubSeq(s, i + 1, Len(s)), c)

\* the value of a string of decimal digits
RECURSIVE DigitsVal(_)
DigitsVal(s) ==
  IF Len(s) = 0 THEN 0
  ELSE 10 * DigitsVal(SubSeq(s, 1, Len(s) - 1)) + DigitVal(s[Len(s)])

\* the digits of an int literal after its sign: digits, single underscores
\* allowed between two digits
IntBodyOk(b) ==
  /\ Len(b) > 0
  /\ \A i \in 1..Len(b) : IsDigit(b[i]) \/ b[i] = "_"
  /\ b[1] # "_"
  /\ b[Len(b)] # "_"
  /\ \A i \in 1..(Len(b) - 1) : ~(b[i] = "_" /\ b[i + 1] = "_")

IntSigned(t) == Len(t) > 0 /\ t[1] \in {"+", "-"}

IntBody(t) == IF IntSigned(t) THEN SubSeq(t, 2, Len(t)) ELSE t

\* int() drops white space from both ends, U+001C to U+001F excepted
IntWhitespace == Whitespace \ {"", "", "", ""}

\* int(s) raises no ValueError
IntOk(s) == IntBodyOk(IntBody(StripOf(s, IntWhitespace)))

\* int(s), when IntOk(s)
IntVal(s) ==
  LET t == StripOf(s, IntWhitespace)
      v == DigitsVal(SelectSeq(IntBody(t), IsDigit))
  IN  IF IntSigned(t) /\ t[1] = "-" THEN 0 - v ELSE v

\* str(n) for an int n
RECURSIVE NatStr(_)
NatStr(n) ==
  IF n < 10 THEN <<DigitChars[n + 1]>>
  ELSE NatStr(n \div 10) \o <<DigitChars[(n % 10) + 1]>>

Str(n) == IF n < 0 THEN <<"-">> \o NatStr(0 - n) ELSE NatStr(n)

(***************************************************************************)
(* ipaddress: addresses and networks.  An IPv4 address is its four octets, *)
(* an IPv6 address its eight hextets; a network is an address and a prefix *)
(* length.  A network of one version never contains an address of the      *)
(* other.                                                                  *)
(***************************************************************************)

\* one octet of a dotted quad: 1 to 3 ASCII digits, no leading zero, <= 255
OctetOk(o) ==
  /\ Len(o) \in 1..3
  /\ \A i \in 1..Len(o) : IsAsciiDigit(o[i])
  /\ (Len(o) > 1 => o[1] # "0")
  /\ DigitsVal(o) <= 255

\* ipaddress.ip_address(s) raises no ValueError (IPv4)
IPv4Ok(s) ==
  LET parts == Split(s, ".")
  IN  Len(parts) = 4 /\ \A i \in 1..4 : OctetOk(parts[i])

IPv4Octets(s) == LET parts == Split(s, ".") IN [i \in 1..4 |-> DigitsVal(parts[i])]

\* the number of leading one bits of a netmask octet, -1 if it is none
OctetOnes(x) ==
  CASE x = 0 -> 0 [] x = 128 -> 1 [] x = 192 -> 2 [] x = 224 -> 3 [] x = 240 -> 4
    [] x = 248 -> 5 [] x = 252 -> 6 [] x = 254 -> 7 [] x = 255 -> 8 [] OTHER -> 0 - 1

\* _prefix_from_ip_int: the mask is ones followed by zeroes
MaskOk(m) ==
  /\ \A i \in 1..4 : OctetOnes(m[i]) >= 0
  /\ \A i \in 1..3 : m[i] # 255 => m[i + 1] = 0

MaskLen(m) == OctetOnes(m[1]) + OctetOnes(m[2]) + OctetOnes(m[3]) + OctetOnes(m[4])

InvertMask(m) == [i \in 1..4 |-> 255 - m[i]]

\* _prefix_from_prefix_string: ASCII digits, value at most 32
PrefixStringOk(p) ==
  Len(p) > 0 /\ (\A i \in 1..Len(p) : IsAsciiDigit(p[i])) /\ DigitsVal(p) <= 32

\* _prefix_from_ip_string: a dotted netmask, else a dotted hostmask
PrefixIPStringOk(p) ==
  IPv4Ok(p) /\ (MaskOk(IPv4Octets(p)) \/ MaskOk(InvertMask(IPv4Octets(p))))

\* _make_netmask
NetmaskOk(p) == PrefixStringOk(p) \/ PrefixIPStringOk(p)

PrefixLen(p) ==
  IF PrefixStringOk(p) THEN DigitsVal(p)
  ELSE IF MaskOk(IPv4Octets(p)) THEN MaskLen(IPv4Octets(p))
  ELSE MaskLen(InvertMask(IPv4Octets(p)))

\* ipaddress.ip_network(s, strict=False) raises no ValueError (IPv4)
IPv4NetworkOk(s) ==
  LET parts == Split(s, "/")
  IN  /\ Len(parts) <= 2
      /\ IPv4Ok(parts[1])
      /\ (Len(parts) = 2 => NetmaskOk(parts[2]))

Pow2(n) == CASE n = 0 -> 1 [] n = 1 -> 2 [] n = 2 -> 4 [] n = 3 -> 8 [] n = 4 -> 16
             [] n = 5 -> 32 [] n = 6 -> 64 [] n = 7 -> 128 [] OTHER -> 256

\* how many bits of octet i (1..4) a prefix of length n covers
OctetBits(n, i) ==
  LET b == n - 8 * (i - 1) IN IF b < 0 THEN 0 ELSE IF b > 8 THEN 8 ELSE b

\* ip in network: the address and the network agree on the prefix bits
InNetwork(ip, net, n) ==
  \A i \in 1..4 :
    ip[i] \div Pow2(8 - OctetBits(n, i)) = net[i] \div Pow2(8 - OctetBits(n, i))

\* IPv4Address(source_ip) in IPv4Network(rule_source, strict=False)
IPv4Contains(rule_source, source_ip) ==
  /\ IPv4NetworkOk(rule_source)
  /\ IPv4Ok(source_ip)
  /\ LET parts == Split(rule_source, "/")
         n == IF Len(parts) = 2 THEN PrefixLen(parts[2]) ELSE 32
     IN  InNetwork(IPv4Octets(source_ip), IPv4Octets(parts[1]), n)

HexChars ==
  <<"0", "1", "2", "3", "4", "5", "6", "7", "8", "9", "a", "b", "c", "d", "e", "f">>

\* the value of each hexadecimal digit
HexTable == [c \in {HexChars[i] : i \in 1..16} |-> (CHOOSE i \in 1..16 : HexChars[i] = c) - 1]

\* _parse_hextet: 1 to 4 characters of 0-9, a-f, A-F
HextetOk(h) ==
  /\ Len(h) \in 1..4
  /\ \A i \in 1..Len(h) : LowerChar(h[i]) \in DOMAIN HexTable

\* int(hextet_str, 16)
RECURSIVE HextetVal(_)
HextetVal(h) ==
  IF Len(h) = 0 THEN 0
  ELSE 16 * HextetVal(SubSeq(h, 1, Len(h) - 1)) + HexTable[LowerChar(h[Len(h)])]

\* _split_scope_id: the address before the first "%"
ScopedAddress(s) == IF Contains(s, "%") THEN SubSeq(s, 1, IndexOf(s, "%") - 1) ELSE s

\* _split_scope_id raises nothing: a scope id is not empty and holds no "%"
ScopeOk(s) ==
  Contains(s, "%") =>
    /\ IndexOf(s, "%") < Len(s)
    /\ ~Contains(SubSeq(s, IndexOf(s, "%") + 1, Len(s)), "%")

\* a part between colons: its value, -1 when it is empty, -2 when it is no
\* hextet
PartVal(h) == IF h = <<>> THEN 0 - 1 ELSE IF HextetOk(h) THEN HextetVal(h) ELSE 0 - 2

\* the parts of _ip_int_from_string, a dotted quad at the end turned into
\* its two hextets
HextetParts(raw) ==
  IF Contains(raw[Len(raw)], ".")
  THEN [i \in 1..(Len(raw) - 1) |-> PartVal(raw[i])]
       \o << 256 * IPv4Octets(raw[Len(raw)])[1] + IPv4Octets(raw[Len(raw)])[2],
             256 * IPv4Octets(raw[Len(raw)])[3] + IPv4Octets(raw[Len(raw)])[4] >>
  ELSE [i \in 1..Len(raw) |-> PartVal(raw[i])]

\* the places of an empty part that is neither the first nor the last: "::"
SkipPlaces(v) == {i \in 2..(Len(v) - 1) : v[i] = 0 - 1}

\* parts_hi and parts_lo of an address with "::" at place k
PartsHi(v, k) == IF v[1] = 0 - 1 THEN k - 2 ELSE k - 1

PartsLo(v, k) == IF v[Len(v)] = 0 - 1 THEN Len(v) - k - 1 ELSE Len(v) - k

\* the checks of _ip_int_from_string on the parts v
HextetPartsOk(v) ==
  /\ Len(v) <= 9
  /\ Cardinality(SkipPlaces(v)) <= 1
  /\ \A i \in 1..Len(v) : v[i] # 0 - 2
  /\ IF SkipPlaces(v) = {}
     THEN Len(v) = 8 /\ v[1] # 0 - 1 /\ v[8] # 0 - 1
     ELSE \A k \in SkipPlaces(v) :
            /\ v[1] = 0 - 1 => PartsHi(v, k) = 0
            /\ v[Len(v)] = 0 - 1 => PartsLo(v, k) = 0
            /\ PartsHi(v, k) + PartsLo(v, k) <= 7

\* the eight hextets of the parts v
Hextets(v) ==
  IF SkipPlaces(v) = {} THEN v
  ELSE LET k == CHOOSE k \in SkipPlaces(v) : TRUE
       IN  [i \in 1..8 |->
              IF i <= PartsHi(v, k) THEN v[i]
              ELSE IF i > 8 - PartsLo(v, k) THEN v[Len(v) - (8 - i)]
              ELSE 0]

\* IPv6Address(s) raises no ValueError
IPv6Ok(s) ==
  /\ ~Contains(s, "/")
  /\ ScopeOk(s)
  /\ ScopedAddress(s) # <<>>
  /\ Len(Split(ScopedAddress(s), ":")) >= 3
  /\ LET raw == Split(ScopedAddress(s), ":")
     IN  /\ Contains(raw[Len(raw)], ".") => IPv4Ok(raw[Len(raw)])
         /\ HextetPartsOk(HextetParts(raw))

IPv6Hextets(s) == Hextets(HextetParts(Split(ScopedAddress(s), ":")))

\* _prefix_from_prefix_string of an IPv6 network: ASCII digits, at most 128
IPv6PrefixOk(p) ==
  Len(p) > 0 /\ (\A i \in 1..Len(p) : IsAsciiDigit(p[i])) /\ DigitsVal(p) <= 128

\* IPv6Network(s, strict=False) raises no ValueError
IPv6NetworkOk(s) ==
  LET parts == Split(s, "/")
  IN  /\ Len(parts) <= 2
      /\ IPv6Ok(parts[1])
      /\ (Len(parts) = 2 => IPv6PrefixOk(parts[2]))

\* how many bits of hextet i (1..8) a prefix of length n covers
HextetBits(n, i) ==
  LET b == n - 16 * (i - 1) IN IF b < 0 THEN 0 ELSE IF b > 16 THEN 16 ELSE b

\* IPv6Address(source_ip) in IPv6Network(rule_source, strict=False)
IPv6Contains(rule_source, source_ip) ==
  /\ IPv6NetworkOk(rule_source)
  /\ IPv6Ok(source_ip)
  /\ LET parts == Split(rule_source, "/")
         n == IF Len(parts) = 2 THEN DigitsVal(parts[2]) ELSE 128
     IN  \A i \in 1..8 :
           IPv6Hextets(source_ip)[i] \div (2 ^ (16 - HextetBits(n, i)))
             = IPv6Hextets(parts[1])[i] \div (2 ^ (16 - HextetBits(n, i)))

\* ip_address(source_ip) in ip_network(rule_source, strict=False), False on
\* ValueError: each string is read as IPv4 and, failing that, as IPv6
CidrContains(rule_source, source_ip) ==
  \/ IPv4Contains(rule_source, source_ip)
  \/ IPv6Contains(rule_source, source_ip)

(***************************************************************************)
(* Rule matching helpers                                                   *)
(***************************************************************************)

\* mutant: the upper end of a range is not covered
port_matches_OpenRange(rule_port, target_port) ==
  IF rule_port = <<>> THEN FALSE
  ELSE LET rp == Strip(rule_port)
       IN  IF rp = <<"*">> THEN TRUE
           ELSE IF rp = target_port THEN TRUE
           ELSE IF Contains(rp, "-")
             THEN LET i == IndexOf(rp, "-")
                      low == SubSeq(rp, 1, i - 1)
                      high == SubSeq(rp, i + 1, Len(rp))
                  IN  /\ IntOk(low)
                      /\ IntOk(target_port)
                      /\ IntVal(low) <= IntVal(target_port)
                      /\ IntOk(high)
                      /\ IntVal(target_port) < IntVal(high)
           ELSE FALSE

\* port_matches(rule_port, target_port)
port_matches(rule_port, target_port) ==
  IF rule_port = <<>> THEN FALSE
  ELSE LET rp == Strip(rule_port)
       IN  IF rp = <<"*">> THEN TRUE
           ELSE IF rp = target_port THEN TRUE
           ELSE IF Contains(rp, "-")
             THEN LET i == IndexOf(rp, "-")
                      low == SubSeq(rp, 1, i - 1)
                      high == SubSeq(rp, i + 1, Len(rp))
                  IN  /\ IntOk(low)
                      /\ IntOk(target_port)
                      /\ IntVal(low) <= IntVal(target_port)
                      /\ IntOk(high)
                      /\ IntVal(target_port) <= IntVal(high)
           ELSE FALSE

SourceWildcards ==
  { <<"*">>, <<"I", "n", "t", "e", "r", "n", "e", "t">>, <<"A", "n", "y">> }

\* mutant: the wildcard literals are compared without regard to case
source_matches_AnyCase(rule_source, source_ip) ==
  IF rule_source = <<>> THEN FALSE
  ELSE LET rs == Strip(rule_source)
       IN  IF Lower(rs) \in {Lower(w) : w \in SourceWildcards} THEN TRUE
           ELSE IF rs = source_ip THEN TRUE
           ELSE IF rs = source_ip \o <<"/", "3", "2">> THEN TRUE
           ELSE IF Contains(rs, "/") THEN CidrContains(rs, source_ip)
           ELSE FALSE

\* source_matches(rule_source, source_ip)
source_matches(rule_source, source_ip) ==
  IF rule_source = <<>> THEN FALSE
  ELSE LET rs == Strip(rule_source)
       IN  IF rs \in SourceWildcards THEN TRUE
           ELSE IF rs = source_ip THEN TRUE
           ELSE IF rs = source_ip \o <<"/", "3", "2">> THEN TRUE
           ELSE IF Contains(rs, "/") THEN CidrContains(rs, source_ip)
           ELSE FALSE

(***************************************************************************)
(* Rules                                                                   *)
(***************************************************************************)

\* the value None
None == [none |-> TRUE]

\* sorted(rules, key=lambda r: r.get("priority", 9999)): a stable sort
RECURSIVE SortedByPriority(_)
SortedByPriority(rules) ==
  IF Len(rules) <= 1 THEN rules
  ELSE LET r == rules[Len(rules)]
           front == SortedByPriority(SubSeq(rules, 1, Len(rules) - 1))
           k == Cardinality({i \in 1..Len(front) : front[i].priority <= r.priority})
       IN  SubSeq(front, 1, k) \o <<r>> \o SubSeq(front, k + 1, Len(front))

(***************************************************************************)
(* Priority allocation                                                     *)
(***************************************************************************)

\* find_available_priority ends in sys.exit(1): no priority is returned
NoPriority == 0 - 1

\* the default arguments start=100, end=4096 of find_available_priority
DefaultStart == 100

DefaultEnd == 4096

\* mutant: the scan never looks at the used priorities
find_available_priority_start(existing_rules, start, end) == start

\* mutant: one more than the highest priority in use
find_available_priority_after_max(existing_rules, start, end) ==
  LET used_priorities == {existing_rules[i].priority : i \in 1..Len(existing_rules)}
  IN  IF used_priorities = {} THEN start
      ELSE 1 + CHOOSE p \in used_priorities : \A q \in used_priorities : q <= p

\* find_available_priority(existing_rules, start, end)
find_available_priority(existing_rules, start, end) ==
  LET used_priorities == {existing_rules[i].priority : i \in 1..Len(existing_rules)}
  IN  IF \E priority \in start..(end - 1) : priority \notin used_priorities
      THEN CHOOSE priority \in start..(end - 1) :
             /\ priority \notin used_priorities
             /\ \A q \in start..(priority - 1) : q \in used_priorities
      ELSE NoPriority

(***************************************************************************)
(* Duplicate detection                                                     *)
(***************************************************************************)

\* get_rule_signature(rule)
get_rule_signature(rule) ==
  << Lower(rule.direction),
     Lower(rule.access),
     Lower(rule.protocol),
     Lower(rule.sourceAddressPrefix),
     Lower(rule.sourcePortRange),
     Lower(rule.destinationAddressPrefix),
     Lower(rule.destinationPortRange) >>

\* signature_map[sig] of find_duplicate_rules: the rules of one signature,
\* in list order (sigs[i] is the signature of the i-th rule)
SignatureGroup(existing_rules, sigs, sig) ==
  LET tagged == [i \in 1..Len(existing_rules) |-> <<sigs[i], existing_rules[i]>>]
      HasSig(t) == t[1] = sig
      group == SelectSeq(tagged, HasSig)
  IN  [k \in 1..Len(group) |-> group[k][2]]

\* mutant: the group is not sorted, the first rule of the list is kept
GroupDuplicates_Unsorted(rules) ==
  IF Len(rules) > 1
  THEN [k \in 1..(Len(rules) - 1) |->
          [name |-> rules[k + 1].name,
           priority |-> rules[k + 1].priority,
           kept_name |-> rules[1].name,
           kept_priority |-> rules[1].priority]]
  ELSE <<>>

\* mutant: the kept rule is marked too
GroupDuplicates_WholeGroup(rules) ==
  IF Len(rules) > 1
  THEN LET rules_sorted == SortedByPriority(rules)
       IN  [k \in 1..Len(rules) |->
              [name |-> rules_sorted[k].name,
               priority |-> rules_sorted[k].priority,
               kept_name |-> rules_sorted[1].name,
               kept_priority |-> rules_sorted[1].priority]]
  ELSE <<>>

\* mutant: only the rule next to the kept one is marked
GroupDuplicates_SecondOnly(rules) ==
  IF Len(rules) > 1
  THEN LET rules_sorted == SortedByPriority(rules)
       IN  <<[name |-> rules_sorted[2].name,
              priority |-> rules_sorted[2].priority,
              kept_name |-> rules_sorted[1].name,
              kept_priority |-> rules_sorted[1].priority]>>
  ELSE <<>>

\* the entries find_duplicate_rules appends for one signature group
GroupDuplicates(rules) ==
  IF Len(rules) > 1
  THEN LET rules_sorted == SortedByPriority(rules)
           kept == rules_sorted[1]
       IN  [k \in 1..(Len(rules) - 1) |->
              [name |-> rules_sorted[k + 1].name,
               priority |-> rules_sorted[k + 1].priority,
               kept_name |-> kept.name,
               kept_priority |-> kept.priority]]
  ELSE <<>>

\* the second loop of find_duplicate_rules, over the signatures in the order
\* of their first rule, from the i-th rule on
RECURSIVE DuplicatesFrom(_, _, _)
DuplicatesFrom(existing_rules, sigs, i) ==
  IF i > Len(existing_rules) THEN <<>>
  ELSE (IF \A j \in 1..(i - 1) : sigs[j] # sigs[i]
        THEN GroupDuplicates(SignatureGroup(existing_rules, sigs, sigs[i]))
        ELSE <<>>)
         \o DuplicatesFrom(existing_rules, sigs, i + 1)

\* find_duplicate_rules(existing_rules)
find_duplicate_rules(existing_rules) ==
  LET sigs == [i \in 1..Len(existing_rules) |-> get_rule_signature(existing_rules[i])]
  IN  DuplicatesFrom(existing_rules, sigs, 1)

(***************************************************************************)
(* Covering rule search                                                    *)
(***************************************************************************)

S_inbound == <<"i", "n", "b", "o", "u", "n", "d">>

S_allow == <<"a", "l", "l", "o", "w">>

S_deny == <<"d", "e", "n", "y">>

S_tcp == <<"t", "c", "p">>

S_star == <<"*">>

\* source_matched of check_existing_allow_rule: the single prefix or any
\* listed prefix matches
SourceMatched(rule, source_ip) ==
  \/ source_matches(rule.sourceAddressPrefix, source_ip)
  \/ \E i \in 1..Len(rule.sourceAddressPrefixes) :
       source_matches(rule.sourceAddressPrefixes[i], source_ip)

\* port_matched of check_existing_allow_rule
PortMatched(rule, port) ==
  \/ port_matches(rule.destinationPortRange, port)
  \/ \E i \in 1..Len(rule.destinationPortRanges) :
       port_matches(rule.destinationPortRanges[i], port)

\* mutant: a matching Deny does not end the search
RECURSIVE ScanRules_DenySkipped(_, _, _, _)
ScanRules_DenySkipped(sorted_rules, i, source_ip, port) ==
  IF i > Len(sorted_rules) THEN None
  ELSE LET rule == sorted_rules[i]
       IN  IF /\ Lower(rule.direction) = S_inbound
              /\ Lower(rule.protocol) \in {S_tcp, S_star}
              /\ SourceMatched(rule, source_ip)
              /\ PortMatched(rule, port)
              /\ Lower(rule.access) = S_allow
           THEN rule
           ELSE ScanRules_DenySkipped(sorted_rules, i + 1, source_ip, port)

\* the loop of check_existing_allow_rule over sorted_rules, from the i-th on
RECURSIVE ScanRules(_, _, _, _)
ScanRules(sorted_rules, i, source_ip, port) ==
  IF i > Len(sorted_rules) THEN None
  ELSE LET rule == sorted_rules[i]
           direction == Lower(rule.direction)
           access == Lower(rule.access)
           protocol == Lower(rule.protocol)
       IN  IF direction # S_inbound THEN ScanRules(sorted_rules, i + 1, source_ip, port)
           ELSE IF protocol \notin {S_tcp, S_star} THEN ScanRules(sorted_rules, i + 1, source_ip, port)
           ELSE IF ~SourceMatched(rule, source_ip) THEN ScanRules(sorted_rules, i + 1, source_ip, port)
           ELSE IF ~PortMatched(rule, port) THEN ScanRules(sorted_rules, i + 1, source_ip, port)
           ELSE IF access = S_allow THEN rule
           ELSE IF access = S_deny THEN None
           ELSE ScanRules(sorted_rules, i + 1, source_ip, port)

\* mutant: the rules are scanned in list order
check_existing_allow_rule_unsorted(existing_rules, source_ip, port) ==
  ScanRules(existing_rules, 1, source_ip, port)

\* check_existing_allow_rule(existing_rules, source_ip, port)
check_existing_allow_rule(existing_rules, source_ip, port) ==
  ScanRules(SortedByPriority(existing_rules), 1, source_ip, port)

(***************************************************************************)
(* The provider's store of one security group, and the planner             *)
(***************************************************************************)

\* the rule as the provider stores it after the create command of
\* add_access_rule_to_nsg: one value per list argument, so the singular fields
Rule(name, priority, direction, access, protocol, source, sources, port, ports) ==
  [name |-> name,
   priority |-> priority,
   direction |-> direction,
   access |-> access,
   protocol |-> protocol,
   sourceAddressPrefix |-> source,
   sourceAddressPrefixes |-> sources,
   sourcePortRange |-> <<"*">>,
   destinationAddressPrefix |-> <<"*">>,
   destinationPortRange |-> port,
   destinationPortRanges |-> ports]

\* get_existing_rules(nsg_name, resource_group): the stored rules, [] if none
get_existing_rules(stored) == stored

\* "network nsg rule delete --name": the rule of that name is gone
DeleteRule(stored, name) ==
  LET Other(r) == name # r.name IN SelectSeq(stored, Other)

\* "network nsg rule create": the rule is stored under its name, replacing a
\* rule of the same name
CreateRule(stored, rule) == DeleteRule(stored, rule.name) \o <<rule>>

\* the state of the group after the first n deletions of remove_duplicate_rules
RECURSIVE DeleteDuplicates(_, _, _)
DeleteDuplicates(stored, duplicates, n) ==
  IF n = 0 THEN stored
  ELSE DeleteRule(DeleteDuplicates(stored, duplicates, n - 1), duplicates[n].name)

\* run_az_command.  A command that fails ends the process with sys.exit(1);
\* when its error names the access token ("AADSTS", "az login", "expired"),
\* refresh_token() is called first, which ends the process too when the login
\* fails, and the same command is submitted a second time: the call returns
\* when that submission succeeds and ends the process when it fails.  The
\* calls of run_az_command of a function are numbered from 1 in the order the
\* code makes them; fail_at is the number of the call that ends the process
\* (0: none), `again` the set of the calls whose command is submitted twice.

\* token refreshes in one run of add_access_rule_to_nsg, cleanup_vm_nsgs,
\* process_vm or run_connectivity_test
MaxRefresh == 1

\* the sets `again` for a step that makes the calls `made`, in a run that
\* has refreshed the token `done` times
Refreshed(done, made) ==
  {again \in SUBSET made : done + Cardinality(again) <= MaxRefresh}

\* the calls first..n of a step or, when call fail_at ends the process,
\* first..fail_at
Calls(first, n, fail_at) == first..(IF fail_at = 0 THEN n ELSE fail_at)

\* the commands submitted for the calls numbered first + 1 to first + n,
\* commands[k] being the command of call first + k
RECURSIVE Submitted(_, _, _, _)
Submitted(commands, again, first, n) ==
  IF n = 0 THEN <<>>
  ELSE Submitted(commands, again, first, n - 1)
         \o (IF first + n \in again THEN <<commands[n], commands[n]>> ELSE <<commands[n]>>)

\* those of them that are second submissions
RECURSIVE Repeated(_, _, _, _)
Repeated(commands, again, first, n) ==
  IF n = 0 THEN <<>>
  ELSE Repeated(commands, again, first, n - 1)
         \o (IF first + n \in again THEN <<commands[n]>> ELSE <<>>)

\* the deletions of remove_duplicate_rules for the duplicates found; calls:
\* the calls of run_az_command made, up to the one that ended the process
RemoveListed(stored, duplicates, fail_at, again) ==
  LET all == 1 + Len(duplicates)
      exited == fail_at \in 1..all
      calls == IF exited THEN fail_at ELSE all
      done == IF exited THEN (IF fail_at = 1 THEN 0 ELSE fail_at - 2) ELSE Len(duplicates)
      issued == IF exited /\ fail_at > 1 THEN done + 1 ELSE done
  IN  [stored |-> DeleteDuplicates(stored, duplicates, done),
       duplicates |-> duplicates,
       attempted |-> Submitted([k \in 1..issued |-> duplicates[k].name], again, 1, issued),
       repeated |-> Repeated([k \in 1..issued |-> duplicates[k].name], again, 1, issued),
       deleted |-> [k \in 1..done |-> duplicates[k].name],
       exited |-> exited,
       calls |-> calls]

\* remove_duplicate_rules(nsg_name, resource_group) on a group that stores
\* `stored`: call 1 is the rule list, the calls from 2 on are one delete per
\* duplicate.  attempted: the names of the delete commands submitted;
\* repeated: those of the second submissions.
remove_duplicate_rules(stored, fail_at, again) ==
  RemoveListed(stored,
               IF fail_at = 1 THEN <<>> ELSE find_duplicate_rules(get_existing_rules(stored)),
               fail_at, again)


S_Allow == <<"A", "l", "l", "o", "w">>

S_Deny == <<"D", "e", "n", "y">>

S_Inbound == <<"I", "n", "b", "o", "u", "n", "d">>

S_Outbound == <<"O", "u", "t", "b", "o", "u", "n", "d">>

S_Tcp == <<"T", "c", "p">>

S_Udp == <<"U", "d", "p">>

S_SSH == <<"S", "S", "H">>

S_RDP == <<"R", "D", "P">>

S_slash32 == <<"/", "3", "2">>

\* DEFAULT_SSH_PORT, DEFAULT_RDP_PORT
DEFAULT_SSH_PORT == <<"2", "2">>

DEFAULT_RDP_PORT == <<"3", "3", "8", "9">>

\* rule_name = f"Allow-{service}-{ip_sanitized}-{timestamp}"
RuleName(service, source_ip, timestamp) ==
  S_Allow \o <<"-">> \o service \o <<"-">> \o Replace(source_ip, ".", "-")
    \o <<"-">> \o Str(timestamp)

\* mutant: the source is the bare address and the port is the SSH default
NewRule_BareSource(source_ip, os_info, priority, timestamp) ==
  Rule(RuleName(os_info.service, source_ip, timestamp),
       IntVal(Str(priority)),
       S_Inbound, S_Allow, S_Tcp,
       source_ip, <<>>,
       DEFAULT_SSH_PORT, <<>>)

\* the rule the create command of add_access_rule_to_nsg asks for; the
\* priority goes through str() and the provider reads it back
NewRule(source_ip, os_info, priority, timestamp) ==
  Rule(RuleName(os_info.service, source_ip, timestamp),
       IntVal(Str(priority)),
       S_Inbound, S_Allow, S_Tcp,
       source_ip \o S_slash32, <<>>,
       os_info.port, <<>>)

\* mutant: the result of check_existing_allow_rule is not looked at
Truthy_Never(value) == FALSE

\* "if matching_rule:" a rule dict is true, None is false
Truthy(value) == value # None

\* the outcome of a run that a failing provider call ended after `calls`
\* calls, before check_existing_allow_rule was reached
Exited(cleaned, calls) ==
  [status |-> "provider_error",
   stored |-> cleaned.stored,
   duplicates |-> cleaned.duplicates,
   attempted |-> cleaned.attempted,
   repeated |-> cleaned.repeated,
   deleted |-> cleaned.deleted,
   existing_rules |-> <<>>,
   matching_rule |-> None,
   priority |-> NoPriority,
   created |-> <<>>,
   checked |-> FALSE,
   calls |-> calls]

\* step 3 of add_access_rule_to_nsg: the create command for `rule`
Create(checked, rule, priority, fail_at, again) ==
  IF fail_at = checked.calls + 1
  THEN [checked EXCEPT !.priority = priority,
                       !.created = Submitted(<<rule>>, again, checked.calls, 1),
                       !.repeated = @ \o Repeated(<<rule.name>>, again, checked.calls, 1),
                       !.calls = checked.calls + 1]
  ELSE [checked EXCEPT !.status = "created",
                       !.priority = priority,
                       !.created = Submitted(<<rule>>, again, checked.calls, 1),
                       !.repeated = @ \o Repeated(<<rule.name>>, again, checked.calls, 1),
                       !.stored = CreateRule(checked.stored, rule),
                       !.calls = checked.calls + 1]

\* the branch of add_access_rule_to_nsg on matching_rule
SkipOrCreate(checked, matching_rule, priority, source_ip, os_info, timestamp, fail_at, again) ==
  IF Truthy(matching_rule)
  THEN [checked EXCEPT !.status = "skipped", !.matching_rule = matching_rule]
  ELSE IF priority = NoPriority
  THEN [checked EXCEPT !.status = "allocation_error", !.matching_rule = matching_rule]
  ELSE Create([checked EXCEPT !.matching_rule = matching_rule],
              NewRule(source_ip, os_info, priority, timestamp), priority, fail_at, again)

\* steps 2 and 3 of add_access_rule_to_nsg on the re-fetched rules
CheckAndCreate(base, existing_rules, source_ip, os_info, timestamp, fail_at, again) ==
  SkipOrCreate([base EXCEPT !.existing_rules = existing_rules,
                            !.checked = TRUE,
                            !.calls = base.calls + 1],
               check_existing_allow_rule(existing_rules, source_ip, os_info.port),
               find_available_priority(existing_rules, DefaultStart, DefaultEnd),
               source_ip, os_info, timestamp, fail_at, again)

\* add_access_rule_to_nsg after step 1 left `cleaned`
AfterRemoval(cleaned, source_ip, os_info, timestamp, fail_at, again) ==
  IF cleaned.exited THEN Exited(cleaned, cleaned.calls)
  ELSE IF fail_at = cleaned.calls + 1 THEN Exited(cleaned, cleaned.calls + 1)
  ELSE CheckAndCreate(Exited(cleaned, cleaned.calls), get_existing_rules(cleaned.stored),
                      source_ip, os_info, timestamp, fail_at, again)

\* the calls of a run of add_access_rule_to_nsg with the outcome `out` that
\* submit a delete or a create command
Commands(out) ==
  {1 + k : k \in 1..Len(out.attempted)}
    \cup (IF out.created # <<>> THEN {out.calls} ELSE {})

\* the outcome of the run of add_access_rule_to_nsg that differs from the
\* run with the outcome `once`, in which no command is submitted twice, in
\* that the commands of the calls `again` are:
\* add_access_rule_to_nsg(s, ip, os, t, f, again)
\*   = ResubmittedRules(add_access_rule_to_nsg(s, ip, os, t, f, {}), again)
ResubmittedRules(once, again) ==
  [once EXCEPT
     !.attempted = Submitted(once.attempted, again, 1, Len(once.attempted)),
     !.repeated = Repeated(once.attempted, again, 1, Len(once.attempted))
                    \o (IF once.created # <<>> /\ once.calls \in again
                          THEN <<once.created[1].name>> ELSE <<>>),
     !.created = IF once.created # <<>> /\ once.calls \in again
                   THEN once.created \o once.created ELSE once.created]

\* add_access_rule_to_nsg(nsg_id, source_ip, os_info) on a group that stores
\* `stored`, at time `timestamp`.  The calls of run_az_command are numbered
\* as in remove_duplicate_rules, followed by the second rule list and the
\* create.  checked: check_existing_allow_rule was reached; created: the rules
\* of the create commands submitted; repeated: the rule names of the delete
\* and create commands submitted a second time.
add_access_rule_to_nsg(stored, source_ip, os_info, timestamp, fail_at, again) ==
  AfterRemoval(remove_duplicate_rules(stored, fail_at, again),
               source_ip, os_info, timestamp, fail_at, again)

(***************************************************************************)
(* detect_vm_os.  A JSON object is a record (the empty object is <<>>), a  *)
(* JSON null is None, a string is a sequence of characters.                *)
(***************************************************************************)

\* d.get(k, default) on a dict d
Get(d, k, default) == IF k \in DOMAIN d THEN d[k] ELSE default

\* "value or {}", "value or ''": None and the empty value give the empty value
OrEmpty(value) == IF value = None THEN <<>> ELSE value

\* sub in s
InStr(sub, s) ==
  \E i \in 0..(Len(s) - Len(sub)) : SubSeq(s, i + 1, i + Len(sub)) = sub

S_Windows == <<"W", "i", "n", "d", "o", "w", "s">>

S_Linux == <<"L", "i", "n", "u", "x">>

windows_keywords ==
  << <<"w", "i", "n", "d", "o", "w", "s">>, <<"w", "i", "n", "d", "o", "w", "s", "s", "e", "r", "v", "e", "r">>, <<"w", "i", "n", "d", "o", "w", "s", "d", "e", "s", "k", "t", "o", "p">>, <<"m", "i", "c", "r", "o", "s", "o", "f", "t", "w", "i", "n", "d", "o", "w", "s">>, <<"w", "i", "n">> >>

\* any(kw in field for kw in windows_keywords)
AnyKeyword(field) ==
  \E k \in 1..Len(windows_keywords) : InStr(windows_keywords[k], field)

WindowsOs(rdp_port, vm_name) ==
  [os_type |-> S_Windows, port |-> rdp_port, protocol |-> S_Tcp,
   service |-> S_RDP, vm_name |-> vm_name]

LinuxOs(ssh_port, vm_name) ==
  [os_type |-> S_Linux, port |-> ssh_port, protocol |-> S_Tcp,
   service |-> S_SSH, vm_name |-> vm_name]

\* strategy 1: the configuration objects of osProfile
ByProfile(os_profile, ssh_port, rdp_port, vm_name) ==
  IF Get(os_profile, "windowsConfiguration", None) # None
    THEN WindowsOs(rdp_port, vm_name)
  ELSE IF Get(os_profile, "linuxConfiguration", None) # None
    THEN LinuxOs(ssh_port, vm_name)
  ELSE None

\* strategy 2: osDisk.osType, when os_info is still None
ByDisk(os_info, os_type, ssh_port, rdp_port, vm_name) ==
  IF os_info # None THEN os_info
  ELSE IF Lower(os_type) = Lower(S_Windows) THEN WindowsOs(rdp_port, vm_name)
  ELSE IF Lower(os_type) = Lower(S_Linux) THEN LinuxOs(ssh_port, vm_name)
  ELSE None

\* mutant: a keyword in the image reference overrides the earlier strategies
ByImage_Overrides(os_info, offer, publisher, sku, rdp_port, vm_name) ==
  IF AnyKeyword(offer) \/ AnyKeyword(publisher) \/ AnyKeyword(sku)
    THEN WindowsOs(rdp_port, vm_name)
  ELSE os_info

\* strategy 3: the Windows keywords in offer, publisher and sku
ByImage(os_info, offer, publisher, sku, rdp_port, vm_name) ==
  IF os_info # None THEN os_info
  ELSE IF AnyKeyword(offer) \/ AnyKeyword(publisher) \/ AnyKeyword(sku)
    THEN WindowsOs(rdp_port, vm_name)
  ELSE None

\* strategy 4: Linux
ByDefault(os_info, ssh_port, vm_name) ==
  IF os_info # None THEN os_info ELSE LinuxOs(ssh_port, vm_name)

Classify(vm_name, os_profile, image_ref, os_disk, ssh_port, rdp_port) ==
  ByDefault(
    ByImage(
      ByDisk(ByProfile(os_profile, ssh_port, rdp_port, vm_name),
             OrEmpty(Get(os_disk, "osType", <<>>)), ssh_port, rdp_port, vm_name),
      Lower(OrEmpty(Get(image_ref, "offer", None))),
      Lower(OrEmpty(Get(image_ref, "publisher", None))),
      Lower(OrEmpty(Get(image_ref, "sku", None))),
      rdp_port, vm_name),
    ssh_port, vm_name)

WithProfiles(vm, storage_profile, port_config) ==
  Classify(Get(vm, "name", <<"u", "n", "k", "n", "o", "w", "n">>),
           OrEmpty(Get(vm, "osProfile", None)),
           OrEmpty(Get(storage_profile, "imageReference", None)),
           OrEmpty(Get(storage_profile, "osDisk", None)),
           Get(port_config, "ssh_port", DEFAULT_SSH_PORT),
           Get(port_config, "rdp_port", DEFAULT_RDP_PORT))

\* detect_vm_os(resource_id, port_config) when "vm show" returns vm
detect_vm_os(vm, port_config) ==
  WithProfiles(vm, OrEmpty(Get(vm, "storageProfile", None)), OrEmpty(port_config))

(***************************************************************************)
(* The provider's network objects.  A resource id is the string the        *)
(* provider returns; the code reads the resource group and the names out   *)
(* of it with split("/") and index().                                      *)
(***************************************************************************)

S_resourceGroups == <<"r", "e", "s", "o", "u", "r", "c", "e", "G", "r", "o", "u", "p", "s">>

\* the id of the object `name` of type `kind` in resource group rg
ResourceId(rg, kind, name) ==
  <<"/", "s", "u", "b", "s", "c", "r", "i", "p", "t", "i", "o", "n", "s", "/", "s", "/">> \o S_resourceGroups \o <<"/">> \o rg
    \o <<"/", "p", "r", "o", "v", "i", "d", "e", "r", "s", "/", "M", "i", "c", "r", "o", "s", "o", "f", "t", ".", "N", "e", "t", "w", "o", "r", "k", "/">> \o kind \o <<"/">> \o name

S_networkSecurityGroups == <<"n", "e", "t", "w", "o", "r", "k", "S", "e", "c", "u", "r", "i", "t", "y", "G", "r", "o", "u", "p", "s">>

S_virtualNetworks == <<"v", "i", "r", "t", "u", "a", "l", "N", "e", "t", "w", "o", "r", "k", "s">>

S_subnets == <<"s", "u", "b", "n", "e", "t", "s">>

\* parts[parts.index(marker) + 1]
PartAfter(parts, marker) == parts[IndexOf(parts, marker) + 1]

\* the id of the security group the provider keeps under this group and name
NsgId(resource_group, nsg_name) ==
  ResourceId(resource_group, S_networkSecurityGroups, nsg_name)

\* f"nsg-{subnet_name}-subnet-{timestamp}", f"nsg-{vm_name}-nic-{timestamp}"
NewNsgName(owner, role, timestamp) ==
  <<"n", "s", "g", "-">> \o owner \o <<"-">> \o role \o <<"-">> \o Str(timestamp)

\* "network nsg create": a PUT by name
CreateNsg(cloud, nsg_id) ==
  IF nsg_id \in DOMAIN cloud.rules THEN cloud
  ELSE [cloud EXCEPT !.rules = (nsg_id :> <<>>) @@ cloud.rules]

\* "network nic update --network-security-group"
AttachToNic(cloud, nic_id, nsg_id) ==
  [cloud EXCEPT !.nics[nic_id].networkSecurityGroup = [id |-> nsg_id]]

\* "network vnet subnet update --network-security-group"
AttachToSubnet(cloud, subnet_id, nsg_id) ==
  [cloud EXCEPT !.subnets[subnet_id].networkSecurityGroup = [id |-> nsg_id]]

(***************************************************************************)
(* process_vm, in steps: the target's interfaces, one get_nsg_from_nic     *)
(* per interface (the interface, each of its IP configurations, the        *)
(* interface's own group), then one add_access_rule_to_nsg per group.      *)
(* A step works on the provider state `cloud` and on the locals `run` of   *)
(* process_vm and get_nsg_from_nic, and gives both back.  fail_at and      *)
(* `again` number the calls of run_az_command of the step.                 *)
(***************************************************************************)

\* run_az_command: print_error(...); sys.exit(1) in the provider call `op`,
\* whose command failed, and failed again if refresh_token() came between
Exit(run, op) == [run EXCEPT !.pc = "exited", !.failed = op, !.reported = TRUE]

\* a provider command of the run, whether it succeeded or not, submitted
\* once or, after refresh_token(), twice
Issued(run, op, target, nsg_id, twice) ==
  [run EXCEPT
     !.commands = @ \o (IF twice THEN << [op |-> op, target |-> target, nsg |-> nsg_id],
                                         [op |-> op, target |-> target, nsg |-> nsg_id] >>
                        ELSE << [op |-> op, target |-> target, nsg |-> nsg_id] >>),
     !.repeated = @ \o (IF twice THEN << [op |-> op, target |-> target, nsg |-> nsg_id] >>
                        ELSE <<>>)]

\* mutant: a group is appended whether or not its id is in the list
AppendNew_Always(nsgs, nsg) == Append(nsgs, nsg)

\* if not any(n["id"] == nsg["id"] for n in nsgs): nsgs.append(nsg)
AppendNew(nsgs, nsg) ==
  IF \E n \in 1..Len(nsgs) : nsgs[n].id = nsg.id THEN nsgs ELSE Append(nsgs, nsg)

\* process_vm: for nsg in nsgs: ... all_nsgs.append(nsg), for the first n
RECURSIVE Merge(_, _, _)
Merge(all_nsgs, nsgs, n) ==
  IF n = 0 THEN all_nsgs ELSE AppendNew(Merge(all_nsgs, nsgs, n - 1), nsgs[n])

\* process_vm up to the list of interfaces
BeginVm(cloud, run, fail_at) ==
  IF fail_at # 0 THEN [cloud |-> cloud, run |-> Exit(run, "vm show")]
  ELSE IF Len(cloud.vm_nics) = 0
    THEN [cloud |-> cloud, run |-> [run EXCEPT !.pc = "returned"]]
  ELSE [cloud |-> cloud,
        run |-> [run EXCEPT !.pc = "nic", !.nic_ids = cloud.vm_nics, !.k = 1]]

\* get_nsg_from_nic up to the loop over the IP configurations, on the JSON
\* `nic` of "network nic show"
WithNic(run, nic_id, nic) ==
  [run EXCEPT
     !.pc = "subnets",
     !.nic_id = nic_id,
     !.nic_has_nsg = (nic.networkSecurityGroup # None),
     !.nsgs = IF nic.networkSecurityGroup # None
                THEN << [id |-> nic.networkSecurityGroup.id, source |-> "NIC"] >>
                ELSE <<>>,
     !.ip_configs = nic.ipConfigurations,
     !.j = 1,
     !.subnet_ids_checked = <<>>]

NicShow(cloud, run, fail_at) ==
  IF fail_at # 0 THEN [cloud |-> cloud, run |-> Exit(run, "nic show")]
  ELSE [cloud |-> cloud,
        run |-> WithNic(run, run.nic_ids[run.k], cloud.nics[run.nic_ids[run.k]])]

\* the replies to "network nsg create" and to the "network nsg show" that
\* follows a reply without id: the first carries the id, only the second
\* does, or neither does
IdReplies == {"create", "show", "none"}

\* attach_nsg_to_nic / attach_nsg_to_subnet and nsgs.append(...) for the group
\* whose id was retrieved; `fails` when the update command is the failing
\* call, `twice` when it is submitted twice
Attach(cloud, run, role, target, nsg_id, source, fails, twice) ==
  IF fails
    THEN [cloud |-> cloud,
          run |-> Exit(Issued(run, "attach", target, nsg_id, twice),
                       IF role = "nic" THEN "nic update" ELSE "subnet update")]
  ELSE [cloud |-> IF role = "nic" THEN AttachToNic(cloud, target, nsg_id)
                  ELSE AttachToSubnet(cloud, target, nsg_id),
        run |-> [Issued(run, "attach", target, nsg_id, twice)
                   EXCEPT !.nsgs = IF role = "nic"
                                     THEN Append(@, [id |-> nsg_id, source |-> source])
                                     ELSE AppendNew(@, [id |-> nsg_id, source |-> source])]]

\* mutant: a failed attach is tried a second time and the group is deleted
AutoCreate_Rollback(cloud, run, role, target, nsg_id, source, first, reply, fail_at, again) ==
  IF fail_at = first
    THEN [cloud |-> cloud,
          run |-> Exit(Issued(run, "create", target, nsg_id, first \in again), "nsg create")]
  ELSE IF reply # "create" /\ fail_at = first + 1
    THEN [cloud |-> CreateNsg(cloud, nsg_id),
          run |-> Exit(Issued(run, "create", target, nsg_id, first \in again), "nsg show")]
  ELSE IF reply = "none"
    THEN [cloud |-> CreateNsg(cloud, nsg_id),
          run |-> [Issued(run, "create", target, nsg_id, first \in again)
                     EXCEPT !.reported = TRUE]]
  ELSE IF fail_at = first + (IF reply = "create" THEN 1 ELSE 2)
    THEN [cloud |-> cloud,
          run |-> Exit(Issued(Issued(Issued(Issued(run, "create", target, nsg_id,
                                                   first \in again),
                                            "attach", target, nsg_id,
                                            first + (IF reply = "create" THEN 1 ELSE 2) \in again),
                                     "attach", target, nsg_id, FALSE),
                              "delete", target, nsg_id, FALSE),
                       IF role = "nic" THEN "nic update" ELSE "subnet update")]
  ELSE Attach(CreateNsg(cloud, nsg_id), Issued(run, "create", target, nsg_id, first \in again),
              role, target, nsg_id, source, FALSE,
              first + (IF reply = "create" THEN 1 ELSE 2) \in again)

\* the auto-creation for `target` ("subnet" or "nic"): create_nsg, "network
\* nsg show" when the reply of the creation carries no id, then the attach,
\* or print_error("Failed to retrieve NSG ID after creation.") and no attach
\* when neither reply carries the id.  The create is call `first` of the
\* step, the calls that follow it are numbered from there.
AutoCreate(cloud, run, role, target, nsg_id, source, first, reply, fail_at, again) ==
  IF fail_at = first
    THEN [cloud |-> cloud,
          run |-> Exit(Issued(run, "create", target, nsg_id, first \in again), "nsg create")]
  ELSE IF reply # "create" /\ fail_at = first + 1
    THEN [cloud |-> CreateNsg(cloud, nsg_id),
          run |-> Exit(Issued(run, "create", target, nsg_id, first \in again), "nsg show")]
  ELSE IF reply = "none"
    THEN [cloud |-> CreateNsg(cloud, nsg_id),
          run |-> [Issued(run, "create", target, nsg_id, first \in again)
                     EXCEPT !.reported = TRUE]]
  ELSE Attach(CreateNsg(cloud, nsg_id), Issued(run, "create", target, nsg_id, first \in again),
              role, target, nsg_id, source,
              fail_at = first + (IF reply = "create" THEN 1 ELSE 2),
              first + (IF reply = "create" THEN 1 ELSE 2) \in again)

\* the body of the loop for a subnet not seen before, on the JSON
\* `subnet_info` of "network vnet subnet show"
WithSubnet(cloud, run, subnet_id, parts, subnet_info, timestamp, reply, fail_at, again) ==
  IF fail_at = 1 THEN [cloud |-> cloud, run |-> Exit(run, "subnet show")]
  ELSE IF subnet_info.networkSecurityGroup # None
    THEN [cloud |-> cloud,
          run |-> [run EXCEPT !.nsgs = AppendNew(@, [id |-> subnet_info.networkSecurityGroup.id,
                                                     source |-> "Subnet"])]]
  ELSE AutoCreate(cloud, run, "subnet", subnet_id,
                  NsgId(PartAfter(parts, S_resourceGroups),
                        NewNsgName(PartAfter(parts, S_subnets), <<"s", "u", "b", "n", "e", "t">>, timestamp)),
                  "Subnet (auto-created)", 2, reply, fail_at, again)

\* the id of the subnet the provider keeps under this group, network and name
SubnetId(resource_group, vnet_name, subnet_name) ==
  ResourceId(resource_group, S_virtualNetworks, vnet_name)
    \o <<"/">> \o S_subnets \o <<"/">> \o subnet_name

\* the resource groups, interfaces, subnets and groups of the topologies
RG1 == <<"r", "g", "1">>

RG2 == <<"r", "g", "2">>

NicId(n) == ResourceId(RG1, <<"n", "e", "t", "w", "o", "r", "k", "I", "n", "t", "e", "r", "f", "a", "c", "e", "s">>, <<"n", "i", "c">> \o Str(n))

SubnetA == SubnetId(RG1, <<"v", "n", "e", "t", "1">>, <<"s", "n", "A">>)

SubnetB == SubnetId(RG2, <<"v", "n", "e", "t", "2">>, <<"s", "n", "B">>)

G1 == NsgId(RG1, <<"g", "1">>)

G2 == NsgId(RG2, <<"g", "2">>)

\* one turn of "for ip_config in ip_configs" on the subnet reference `subnet`
SubnetStep(cloud, run, subnet, timestamp, reply, fail_at, again) ==
  IF subnet = None THEN [cloud |-> cloud, run |-> run]
  ELSE IF \E n \in 1..Len(run.subnet_ids_checked) : run.subnet_ids_checked[n] = subnet.id
    THEN [cloud |-> cloud, run |-> run]
  ELSE WithSubnet(cloud,
                  [run EXCEPT !.subnet_ids_checked = Append(@, subnet.id)],
                  subnet.id,
                  Split(subnet.id, "/"),
                  cloud.subnets[SubnetId(PartAfter(Split(subnet.id, "/"), S_resourceGroups),
                                         PartAfter(Split(subnet.id, "/"), S_virtualNetworks),
                                         PartAfter(Split(subnet.id, "/"), S_subnets))],
                  timestamp, reply, fail_at, again)

\* the loop goes on to the next IP configuration
AfterSubnet(out) ==
  IF out.run.pc = "exited" THEN out
  ELSE [cloud |-> out.cloud, run |-> [out.run EXCEPT !.j = @ + 1]]

\* "if not nic_has_nsg:" of get_nsg_from_nic
NicGroup(cloud, run, timestamp, reply, fail_at, again) ==
  IF run.nic_has_nsg THEN [cloud |-> cloud, run |-> run]
  ELSE AutoCreate(cloud, run, "nic", run.nic_id,
                  NsgId(PartAfter(Split(run.nic_id, "/"), S_resourceGroups),
                        NewNsgName(run.vm_name, <<"n", "i", "c">>, timestamp)),
                  "NIC (auto-created)", 1, reply, fail_at, again)

\* get_nsg_from_nic returns nsgs; process_vm adds them to all_nsgs and goes
\* on to the next interface or, after the last one, to the groups
Returned(run, all_nsgs) ==
  [run EXCEPT
     !.all_nsgs = all_nsgs,
     !.k = run.k + 1,
     !.pc = IF run.k < Len(run.nic_ids) THEN "nic"
            ELSE IF all_nsgs = <<>> THEN "returned"
            ELSE "rules",
     !.i = 1]

AfterNicGroup(out) ==
  IF out.run.pc = "exited" THEN out
  ELSE [cloud |-> out.cloud,
        run |-> Returned(out.run, Merge(out.run.all_nsgs, out.run.nsgs, Len(out.run.nsgs)))]

\* the rules the provider lists for the group the code names from nsg_id
RulesOf(cloud, parts) ==
  cloud.rules[NsgId(PartAfter(parts, S_resourceGroups),
                    PartAfter(parts, S_networkSecurityGroups))]

\* the delete commands that remove_duplicate_rules submitted a second time
\* for the group, the latest entry of out.repeated being that of a create
\* command when the create was submitted twice
Resubmissions(run, nsg_id, out) ==
  [run EXCEPT !.repeated =
     @ \o [k \in 1..(Len(out.repeated) - (IF Len(out.created) = 2 THEN 1 ELSE 0)) |->
             [op |-> "rule delete", target |-> nsg_id, nsg |-> nsg_id]]]

\* one turn of "for nsg in all_nsgs: add_access_rule_to_nsg(...)" that ends
\* with the outcome `out` of add_access_rule_to_nsg
Ensured(cloud, run, nsg_id, out) ==
  [cloud |-> [cloud EXCEPT !.rules[nsg_id] = out.stored],
   run |-> IF out.status \in {"provider_error", "allocation_error"}
             THEN Exit([(IF out.created = <<>> THEN Resubmissions(run, nsg_id, out)
                         ELSE Issued(Resubmissions(run, nsg_id, out), "rule create",
                                     nsg_id, nsg_id, Len(out.created) = 2))
                          EXCEPT !.ensured = Append(@, [id |-> nsg_id,
                                                          status |-> out.status,
                                                          created |-> out.created])],
                       "rule command")
             ELSE [(IF out.created = <<>> THEN Resubmissions(run, nsg_id, out)
                    ELSE Issued(Resubmissions(run, nsg_id, out), "rule create",
                                nsg_id, nsg_id, Len(out.created) = 2))
                     EXCEPT !.ensured = Append(@, [id |-> nsg_id,
                                                   status |-> out.status,
                                                   created |-> out.created]),
                              !.i = run.i + 1,
                              !.pc = IF run.i < Len(run.all_nsgs) THEN "rules" ELSE "done"]]

(***************************************************************************)
(* Bounds and input pools                                                  *)
(***************************************************************************)

\* rules in a list handed to check_existing_allow_rule or find_duplicate_rules
MaxRules == 2

\* planner runs (ensure access or cleanup) in one behaviour
MaxRuns == 2

\* the latest second at which a run reads the clock (the first is 0)
MaxClock == 1

IP_A == <<"1", "9", "8", ".", "5", "1", ".", "1", "0", "0", ".", "7">>

IP_B == <<"1", "0", ".", "0", ".", "0", ".", "5">>

SourcePool == {IP_A, IP_B}

\* the os_info dicts detect_vm_os returns with the default ports
LinuxInfo ==
  [os_type |-> <<"L", "i", "n", "u", "x">>, port |-> DEFAULT_SSH_PORT,
   protocol |-> S_Tcp, service |-> S_SSH]

WindowsInfo ==
  [os_type |-> <<"W", "i", "n", "d", "o", "w", "s">>, port |-> DEFAULT_RDP_PORT,
   protocol |-> S_Tcp, service |-> S_RDP]

OsInfoPool == {LinuxInfo, WindowsInfo}

PortPool == {DEFAULT_SSH_PORT, DEFAULT_RDP_PORT}

S_Internet == <<"I", "n", "t", "e", "r", "n", "e", "t">>

\* rule bodies (name and priority are set when a list is built)
AllowSshFromA ==
  Rule(<<>>, 0, S_Inbound, S_Allow, S_Tcp, IP_A \o S_slash32, <<>>, DEFAULT_SSH_PORT, <<>>)

AllowSshFromAToHost ==
  [AllowSshFromA EXCEPT !.destinationAddressPrefix = <<"1", "0", ".", "0", ".", "0", ".", "4">>]

DenyAll == Rule(<<>>, 0, S_Inbound, S_Deny, S_star, S_star, <<>>, S_star, <<>>)

AllowAll ==
  Rule(<<>>, 0, S_Inbound, S_Allow, S_Tcp, <<"0", ".", "0", ".", "0", ".", "0", "/", "0">>, <<>>, S_star, <<>>)

\* list-valued sources and ports
AllowLists ==
  Rule(<<>>, 0, S_Inbound, S_Allow, S_Tcp, <<>>,
       << <<"1", "0", ".", "0", ".", "0", ".", "0", "/", "2", "4">>, <<"2", "0", "3", ".", "0", ".", "1", "1", "3", ".", "9">> >>, <<>>,
       << <<"2", "0", "-", "2", "5">>, DEFAULT_RDP_PORT >>)

\* list-valued, with a malformed CIDR and a malformed port range
AllowBadLists ==
  Rule(<<>>, 0, S_Inbound, S_Allow, S_Tcp, <<>>,
       << <<"1", "0", ".", "0", ".", "0", ".", "0", "/", "3", "3">> >>, <<>>, << <<"2", "2", "-", "a", "b", "c">> >>)

DenySshFromInternet ==
  Rule(<<>>, 0, S_Inbound, S_Deny, S_Tcp, S_Internet, <<>>, DEFAULT_SSH_PORT, <<>>)

OutboundAll == Rule(<<>>, 0, S_Outbound, S_Allow, S_star, S_star, <<>>, S_star, <<>>)

UdpAll == Rule(<<>>, 0, S_Inbound, S_Allow, S_Udp, S_star, <<>>, S_star, <<>>)

\* other spellings of direction, access, protocol and source
AllowSshSpelled ==
  Rule(<<>>, 0, S_inbound, S_allow, <<"T", "C", "P">>, S_Internet, <<>>, DEFAULT_SSH_PORT, <<>>)

AllowSshFromLowerInternet ==
  Rule(<<>>, 0, S_Inbound, S_Allow, S_Tcp, Lower(S_Internet), <<>>, DEFAULT_SSH_PORT, <<>>)

DenyRangeFromSubnet ==
  Rule(<<>>, 0, S_Inbound, S_Deny, S_Tcp, <<"1", "0", ".", "0", ".", "0", ".", "0", "/", "2", "4">>, <<>>, <<"2", "0", "-", "2", "5">>, <<>>)

\* the bodies of the lists handed to the pure functions
RuleBodies ==
  << AllowSshFromA, AllowSshFromAToHost, DenyAll, AllowAll, AllowLists, AllowBadLists,
     DenySshFromInternet, OutboundAll, UdpAll, AllowSshSpelled, AllowSshFromLowerInternet,
     DenyRangeFromSubnet >>

\* the bodies of the rules a group holds before the first planner run
PlannerBodies == << AllowSshFromA, DenyAll, AllowAll, AllowLists, AllowBadLists >>

\* the rule lists of at most `max` rules with bodies of `bodies`, pairwise
\* distinct priorities of `priorities` and the names r1, r2, ...
RuleLists(bodies, priorities, max) ==
  UNION { { [i \in 1..n |-> [bodies[body[i]] EXCEPT !.name = <<"r">> \o Str(i),
                                                   !.priority = prio[i]]] :
              body \in [1..n -> 1..Len(bodies)],
              prio \in {f \in [1..n -> priorities] :
                          \A i, j \in 1..n : i # j => f[i] # f[j]} } :
          n \in 0..max }

\* priorities of the rules a group holds before the first planner run
PlannerPriorities == {100, 101}

\* the lists, and each non-empty list with one more rule r3 behind it that has
\* the fields of one of its rules and the next priority
WithCopy(lists) ==
  lists \cup {Append(l, [l[i] EXCEPT !.name = <<"r", "3">>, !.priority = 102]) :
                <<l, i>> \in {<<m, j>> \in lists \X (1..2) : j <= Len(m)}}

\* priorities of the rules handed to the pure functions
PurePriorities == {100, 110, 120}

(***************************************************************************)
(* Priority allocation inputs                                              *)
(***************************************************************************)

\* a rule of which only the priority matters
PriorityRule(priority) ==
  Rule(<<"p">> \o Str(priority), priority, S_Outbound, S_Deny, S_Udp,
       Str(priority), <<>>, S_star, <<>>)

\* the group holds rules at every priority from 100 to 99 + k, for k in
BlockSizes == {0, 2, 3995, 3996, 3997}

\* ... and at some of these priorities (65000 and up are the default rules)
ExtraPriorities == <<103, 4095, 4096, 65000, 65001>>

\* the (start, end) arguments: the defaults and two short ranges
AllocRanges == { <<DefaultStart, DefaultEnd>>, <<100, 103>>, <<4094, 4097>> }

\* the rules at the chosen extra priorities above `top`, from the i-th on
RECURSIVE ExtraRules(_, _, _)
ExtraRules(chosen, top, i) ==
  IF i > Len(ExtraPriorities) THEN <<>>
  ELSE (IF ExtraPriorities[i] \in chosen /\ ExtraPriorities[i] > top
        THEN <<PriorityRule(ExtraPriorities[i])>> ELSE <<>>)
         \o ExtraRules(chosen, top, i + 1)

\* the rule list of a group: extra rules first, then the block of k rules
AllocRuleList(chosen, k) ==
  ExtraRules(chosen, 99 + k, 1) \o [i \in 1..k |-> PriorityRule(99 + i)]

(***************************************************************************)
(* State                                                                   *)
(***************************************************************************)

VARIABLES
  nsg_rules,   \* the rules the provider stores for the group
  source_ip,   \* the caller's address
  os_info,     \* the service spec of the target
  clock,       \* the latest int(time.time()) the planner read
  runs,        \* planner runs so far
  last,        \* the outcome of the latest planner run
  prev,        \* the operation and status of the run before it
  call,        \* an application of one of the pure functions
  cloud,       \* the provider's interfaces, subnets and security groups
  vm_run,      \* the locals of process_vm and get_nsg_from_nic
  session,     \* main: the mode, the targets and the position of its loop
  test         \* the locals of run_connectivity_test and what it did

vars ==
  <<nsg_rules, source_ip, os_info, clock, runs, last, prev, call, cloud, vm_run,
    session, test>>

NoRun ==
  [op |-> "none", status |-> "none", before |-> <<>>, stored |-> <<>>,
   duplicates |-> <<>>, attempted |-> <<>>, deleted |-> <<>>, existing_rules |-> <<>>,
   matching_rule |-> None, priority |-> NoPriority, created |-> <<>>, checked |-> FALSE,
   repeated |-> <<>>]

\* fn is the function applied ("none" before the application); the other
\* fields are its arguments and the functions' results
NoCall ==
  [fn |-> "none", existing_rules |-> <<>>, source_ip |-> IP_A, port |-> DEFAULT_SSH_PORT,
   start |-> DefaultStart, end |-> DefaultEnd,
   matching_rule |-> None, duplicates |-> <<>>, priority |-> NoPriority,
   rule_port |-> <<>>, rule_source |-> <<>>, matches |-> FALSE,
   vm |-> <<>>, port_config |-> None, os_info |-> None]

\* no interfaces, subnets or groups
NoCloud == [vm_nics |-> <<>>, nics |-> <<>>, subnets |-> <<>>, rules |-> <<>>]

\* process_vm before its first statement
NoVmRun ==
  [pc |-> "start", vm_name |-> <<"v", "m", "1">>, nic_ids |-> <<>>, k |-> 0, nic_id |-> <<>>,
   nic_has_nsg |-> FALSE, nsgs |-> <<>>, ip_configs |-> <<>>, j |-> 0,
   subnet_ids_checked |-> <<>>, all_nsgs |-> <<>>, i |-> 0, ensured |-> <<>>,
   commands |-> <<>>, repeated |-> <<>>, failed |-> "none", reported |-> FALSE,
   before |-> NoCloud]

\* main before its first statement: no targets listed.  ended_in is the
\* command that ended the invocation before this one, initial the provider
\* state before the first invocation
NoSession ==
  [mode |-> "none", targets |-> <<>>, idx |-> 0, processed |-> <<>>,
   status |-> "none", invocation |-> 0, confirm |-> <<>>, deletes |-> 0,
   ended_in |-> "none", initial |-> NoCloud, selected |-> <<>>]

\* run_connectivity_test before its first statement.  depth: the calls of
\* run_connectivity_test that have not returned, less one; checks, starts,
\* resolutions, probes: the calls of get_vm_power_state, of
\* run_az_command(["vm", "start", ...]), of get_vm_public_ip_from_primary_nic
\* and of test_tcp_handshake so far; repeated: the commands that
\* run_az_command submitted a second time; answer: what the operator typed at
\* the latest start offer; accepts: the offers answered with y or yes;
\* restarts: the recursive calls
NoTest ==
  [pc |-> "none", depth |-> 0, power_info |-> None, checks |-> 0, answer |-> <<>>,
   accepts |-> 0, starts |-> 0, restarts |-> 0, resolutions |-> 0, probes |-> 0,
   repeated |-> <<>>, lookup |-> None, public_ip |-> <<>>, target |-> None,
   result |-> None, outcome |-> "none"]

Init ==
  /\ nsg_rules \in WithCopy(RuleLists(PlannerBodies, PlannerPriorities,
                                       Cardinality(PlannerPriorities)))
  /\ source_ip \in SourcePool
  /\ os_info \in OsInfoPool
  /\ clock = 0
  /\ runs = 0
  /\ last = NoRun
  /\ prev = [op |-> "none", status |-> "none"]
  /\ call = NoCall
  /\ cloud = NoCloud
  /\ vm_run = NoVmRun
  /\ session = NoSession
  /\ test = NoTest

\* the values int(time.time()) can have when the latest value read is `latest`
ReadClock(latest) == {t \in latest..(latest + 1) : t <= MaxClock}

\* the record of a run with outcome `out` on a group that stored `before`
RunRecord(op, status, before, out) ==
  [op |-> op, status |-> status, before |-> before,
   stored |-> out.stored, duplicates |-> out.duplicates,
   attempted |-> out.attempted, repeated |-> out.repeated, deleted |-> out.deleted,
   existing_rules |-> out.existing_rules, matching_rule |-> out.matching_rule,
   priority |-> out.priority, created |-> out.created, checked |-> out.checked]

\* a run of add_access_rule_to_nsg with outcome `out`; it reads the clock only
\* when it builds the name of a new rule.  fail_at is a call the run makes,
\* `again` are delete and create commands of the run (a list command that is
\* submitted twice leaves the state of one that is submitted once).
EnsureRun(out, timestamp, fail_at, again) ==
  /\ fail_at <= out.calls
  /\ Len(out.repeated) = Cardinality(again)
  /\ timestamp = clock \/ out.created # <<>>
  /\ clock' = timestamp
  /\ nsg_rules' = out.stored
  /\ last' = RunRecord("ensure", out.status, nsg_rules, out)

\* process_vm: add_access_rule_to_nsg(nsg["id"], source_ip, os_info)
EnsureAccess ==
  /\ runs < MaxRuns
  /\ \E fail_at \in 0..(Len(nsg_rules) + 3), timestamp \in ReadClock(clock) :
     \E once \in {add_access_rule_to_nsg(nsg_rules, source_ip, os_info, timestamp,
                                          fail_at, {})} :
     \E again \in Refreshed(0, Commands(once)) :
       EnsureRun(ResubmittedRules(once, again), timestamp, fail_at, again)
  /\ prev' = [op |-> last.op, status |-> last.status]
  /\ runs' = runs + 1
  /\ UNCHANGED <<source_ip, os_info, call, cloud, vm_run, session, test>>

\* a call of run_az_command is made: call fail_at ends the process, its
\* command having failed without an authentication error, or with one and
\* again after refresh_token()
Made(st) == [st EXCEPT !.calls = @ + 1, !.exited = (st.calls + 1 = st.fail_at)]

\* cleanup_vm_nsgs before its first provider call.  calls counts the calls
\* of run_az_command made; cleaned holds the outcomes of
\* remove_duplicate_rules in the order of the calls, first the calls made
\* before each of them, repeated the names of the delete commands submitted
\* a second time
StartCleanup(provider, fail_at, again) ==
  [cloud |-> provider, calls |-> 0, fail_at |-> fail_at, again |-> again, exited |-> FALSE,
   processed_nsgs |-> {}, cleaned |-> <<>>, first |-> <<>>, repeated |-> <<>>]

\* remove_duplicate_rules(parts[nsg_idx], parts[rg_idx]) returned or ended
\* the process with outcome `out`
Processed(st, parts, out) ==
  [st EXCEPT !.cloud.rules[NsgId(PartAfter(parts, S_resourceGroups),
                                 PartAfter(parts, S_networkSecurityGroups))] = out.stored,
             !.calls = @ + out.calls,
             !.exited = out.exited,
             !.cleaned = Append(@, out),
             !.first = Append(@, st.calls),
             !.repeated = @ \o out.repeated]

\* if nic_nsg: ... if nsg_id not in processed_nsgs: processed_nsgs.add(nsg_id);
\* remove_duplicate_rules(...), and the same for subnet_nsg
CleanGroup(st, nsg_ref) ==
  IF st.exited THEN st
  ELSE IF nsg_ref = None THEN st
  ELSE IF nsg_ref.id \in st.processed_nsgs THEN st
  ELSE Processed([st EXCEPT !.processed_nsgs = @ \cup {nsg_ref.id}],
                 Split(nsg_ref.id, "/"),
                 remove_duplicate_rules(
                   RulesOf(st.cloud, Split(nsg_ref.id, "/")),
                   IF st.fail_at > st.calls THEN st.fail_at - st.calls ELSE 0,
                   {k - st.calls : k \in {c \in st.again : c > st.calls}}))

\* "network vnet subnet show" with the names read out of subnet_id
SubnetShown(provider, parts) ==
  provider.subnets[SubnetId(PartAfter(parts, S_resourceGroups),
                            PartAfter(parts, S_virtualNetworks),
                            PartAfter(parts, S_subnets))]

\* one turn of "for ip_config in ip_configs" of cleanup_vm_nsgs: the subnet
\* is shown for every IP configuration that names one
CleanSubnet(st, subnet) ==
  IF st.exited THEN st
  ELSE IF subnet = None THEN st
  ELSE IF Made(st).exited THEN Made(st)
  ELSE CleanGroup(Made(st),
                  SubnetShown(st.cloud, Split(subnet.id, "/")).networkSecurityGroup)

\* the first j turns of "for ip_config in ip_configs"
RECURSIVE CleanSubnets(_, _, _)
CleanSubnets(st, ip_configs, j) ==
  IF j = 0 THEN st
  ELSE CleanSubnet(CleanSubnets(st, ip_configs, j - 1), ip_configs[j].subnet)

\* one turn of "for nic_id in nic_ids": "network nic show", the interface's
\* own group, then the groups of its subnets
CleanNic(st, nic) ==
  IF st.exited THEN st
  ELSE IF Made(st).exited THEN Made(st)
  ELSE CleanSubnets(CleanGroup(Made(st), nic.networkSecurityGroup),
                    nic.ipConfigurations, Len(nic.ipConfigurations))

\* the first k turns of "for nic_id in nic_ids"
RECURSIVE CleanNics(_, _, _)
CleanNics(st, nic_ids, k) ==
  IF k = 0 THEN st
  ELSE CleanNic(CleanNics(st, nic_ids, k - 1), st.cloud.nics[nic_ids[k]])

\* cleanup_vm_nsgs(resource_id): get_vm_network_interfaces, the return when
\* the VM has no interface, and the loop over the interfaces
cleanup_vm_nsgs(provider, fail_at, again) ==
  IF Made(StartCleanup(provider, fail_at, again)).exited
    THEN Made(StartCleanup(provider, fail_at, again))
  ELSE IF Len(provider.vm_nics) = 0 THEN Made(StartCleanup(provider, fail_at, again))
  ELSE CleanNics(Made(StartCleanup(provider, fail_at, again)),
                 provider.vm_nics, Len(provider.vm_nics))

\* the calls of a run of cleanup_vm_nsgs with the outcome `out` that submit
\* a delete command
Deletes(out) ==
  UNION {{out.first[i] + 1 + k :
            k \in 1..(Len(out.cleaned[i].attempted) - Len(out.cleaned[i].repeated))} :
           i \in 1..Len(out.cleaned)}

\* the outcome of remove_duplicate_rules when the delete commands of the
\* calls `again` are submitted twice and those of `once` are not
ResubmittedDeletes(once, again) ==
  [once EXCEPT !.attempted = Submitted(once.attempted, again, 1, Len(once.attempted)),
               !.repeated = Repeated(once.attempted, again, 1, Len(once.attempted))]

\* the second submissions in the first n calls of remove_duplicate_rules
RECURSIVE RepeatedIn(_, _, _)
RepeatedIn(once, again, n) ==
  IF n = 0 THEN <<>>
  ELSE RepeatedIn(once, again, n - 1)
         \o ResubmittedDeletes(once.cleaned[n],
                               {k - once.first[n] : k \in {c \in again : c > once.first[n]}}).repeated

\* the outcome of the run of cleanup_vm_nsgs that differs from the run with
\* the outcome `once`, in which no command is submitted twice, in that the
\* commands of the calls `again` are:
\* cleanup_vm_nsgs(p, f, again) = ResubmittedCleanup(cleanup_vm_nsgs(p, f, {}), again)
ResubmittedCleanup(once, again) ==
  [once EXCEPT
     !.again = again,
     !.cleaned = [i \in 1..Len(once.cleaned) |->
                    ResubmittedDeletes(once.cleaned[i],
                                       {k - once.first[i] :
                                          k \in {c \in again : c > once.first[i]}})],
     !.repeated = RepeatedIn(once, again, Len(once.cleaned))]

\* the VM of a cleanup: without interface (0), or with one interface and the
\* group on the interface (1), on its subnet (2) or on both (3)
CleanupShapes == 0..3

\* the provider state of that VM when the group stores `stored`
CleanupCloud(shape, stored) ==
  [vm_nics |-> IF shape = 0 THEN <<>> ELSE <<NicId(1)>>,
   nics |-> (NicId(1) :>
               [name |-> <<"n", "i", "c", "1">>,
                networkSecurityGroup |-> IF shape \in {1, 3} THEN [id |-> G1] ELSE None,
                ipConfigurations |-> IF shape \in {2, 3}
                                       THEN << [subnet |-> [id |-> SubnetA]] >>
                                       ELSE <<>>]),
   subnets |-> (SubnetA :> [networkSecurityGroup |-> [id |-> G1]]),
   rules |-> (G1 :> stored)]

\* a run of cleanup_vm_nsgs with outcome `out`: the call fail_at is one the
\* run makes, the calls of `again` are delete commands of the run; the record
\* holds the remove_duplicate_rules of the run
CleanupRun(out, fail_at, again) ==
  /\ (fail_at # 0) <=> out.exited
  /\ Len(out.repeated) = Cardinality(again)
  /\ nsg_rules' = out.cloud.rules[G1]
  /\ last' = [NoRun EXCEPT !.op = "cleanup",
                           !.status = IF out.exited THEN "provider_error"
                                      ELSE IF out.cleaned = <<>> THEN "no_interfaces"
                                      ELSE "cleaned",
                           !.before = nsg_rules,
                           !.stored = out.cloud.rules[G1],
                           !.duplicates = IF out.cleaned = <<>> THEN <<>>
                                          ELSE out.cleaned[1].duplicates,
                           !.attempted = IF out.cleaned = <<>> THEN <<>>
                                         ELSE out.cleaned[1].attempted,
                           !.repeated = out.repeated,
                           !.deleted = IF out.cleaned = <<>> THEN <<>>
                                       ELSE out.cleaned[1].deleted]

\* main with --cleanup-only: cleanup_vm_nsgs for the VM
CleanupOnly ==
  /\ runs < MaxRuns
  /\ \E shape \in CleanupShapes, fail_at \in 0..(Len(nsg_rules) + 3) :
     \E once \in {cleanup_vm_nsgs(CleanupCloud(shape, nsg_rules), fail_at, {})} :
     \E again \in Refreshed(0, Deletes(once)) :
       CleanupRun(ResubmittedCleanup(once, again), fail_at, again)
  /\ prev' = [op |-> last.op, status |-> last.status]
  /\ runs' = runs + 1
  /\ UNCHANGED <<source_ip, os_info, clock, call, cloud, vm_run, session, test>>

Next == EnsureAccess \/ CleanupOnly

Spec == Init /\ [][Next]_vars

(***************************************************************************)
(* The pure functions applied to bounded inputs                            *)
(***************************************************************************)

PlannerIdle ==
  /\ nsg_rules = <<>>
  /\ source_ip = IP_A
  /\ os_info = LinuxInfo
  /\ clock = 0
  /\ runs = 0
  /\ last = NoRun
  /\ prev = [op |-> "none", status |-> "none"]

VmIdle ==
  /\ cloud = NoCloud
  /\ vm_run = NoVmRun
  /\ session = NoSession
  /\ test = NoTest

InitRules ==
  /\ PlannerIdle
  /\ VmIdle
  /\ \E rules \in RuleLists(RuleBodies, PurePriorities, MaxRules),
        ip \in SourcePool, port \in PortPool :
       call = [NoCall EXCEPT !.existing_rules = rules, !.source_ip = ip, !.port = port]

CheckExistingAllowRule ==
  /\ call.fn = "none"
  /\ call' = [call EXCEPT
                !.fn = "check_existing_allow_rule",
                !.matching_rule =
                   check_existing_allow_rule(call.existing_rules, call.source_ip, call.port)]
  /\ UNCHANGED <<nsg_rules, source_ip, os_info, clock, runs, last, prev, cloud, vm_run, session, test>>

FindDuplicateRules ==
  /\ call.fn = "none"
  /\ call' = [call EXCEPT !.fn = "find_duplicate_rules",
                          !.duplicates = find_duplicate_rules(call.existing_rules)]
  /\ UNCHANGED <<nsg_rules, source_ip, os_info, clock, runs, last, prev, cloud, vm_run, session, test>>

NextRules == CheckExistingAllowRule \/ FindDuplicateRules

SpecRules == InitRules /\ [][NextRules]_vars

InitAlloc ==
  /\ PlannerIdle
  /\ VmIdle
  /\ \E k \in BlockSizes, range \in AllocRanges,
        chosen \in SUBSET {ExtraPriorities[i] : i \in 1..Len(ExtraPriorities)} :
       call = [NoCall EXCEPT !.existing_rules = AllocRuleList(chosen, k),
                             !.start = range[1], !.end = range[2]]

FindAvailablePriority ==
  /\ call.fn = "none"
  /\ call' = [call EXCEPT !.fn = "find_available_priority",
                          !.priority = find_available_priority(call.existing_rules,
                                                               call.start, call.end)]
  /\ UNCHANGED <<nsg_rules, source_ip, os_info, clock, runs, last, prev, cloud, vm_run, session, test>>

NextAlloc == FindAvailablePriority

SpecAlloc == InitAlloc /\ [][NextAlloc]_vars

(***************************************************************************)
(* The matchers applied to bounded inputs                                  *)
(***************************************************************************)

\* destination port specs of rules: wildcard, ports, ranges, malformed ranges,
\* and specs that only strip() and int() make readable: surrounding whitespace,
\* a sign, underscores between digits, digits of another script
PortSpecPool ==
  { <<"*">>,
    <<"2", "2">>,
    <<"3", "3", "8", "9">>,
    <<"1", "5", "0", "0">>,
    <<"2", "0", "0", "1">>,
    <<"1", "0", "0", "0", "-", "2", "0", "0", "0">>,
    <<"2", "0", "-", "2", "5">>,
    <<"2", "2", "-", "2", "2">>,
    <<"2", "5", "-", "2", "0">>,
    <<"0", "-", "6", "5", "5", "3", "5">>,
    <<>>,
    <<"2", "2", "-", "a", "b", "c">>,
    <<"a", "b", "c", "-", "2", "0", "0", "0">>,
    <<"1", "0", "0", "0", "-">>,
    <<"-", "2", "0", "0", "0">>,
    <<"s", "s", "h">>,
    <<"1", "0", "0", "0", "-", "2", "0", "0", "0", "-", "3", "0", "0", "0">>,
    <<"2", "2", ",", "3", "3", "8", "9">>,
    <<" ", "2", "2", " ">>,
    <<" ", "*", " ">>,
    <<"+", "1", "0", "0", "0", "-", "2", "0", "0", "0">>,
    <<"1", "_", "0", "0", "0", "-", "2", "_", "0", "0", "0">>,
    <<" ", "1", "0", "0", "0", " ", "-", " ", "2", "0", "0", "0", " ">>,
    <<"۲", "۰", "-", "۲", "۵">>,
    <<"1", "_", "_", "0", "0", "0", "-", "2", "0", "0", "0">>,
    <<"1", "0", "0", "0", "-", "+", "2", "0", "0", "0">>,
    <<" ">> }

\* ports of service specs
TargetPortPool ==
  { <<"2", "2">>,
    <<"3", "3", "8", "9">>,
    <<"1", "5", "0", "0">>,
    <<"2", "0", "0", "1">>,
    <<"1", "0", "0", "0">>,
    <<"2", "0", "0", "0">>,
    <<"9", "9", "9">>,
    <<"2", "0">>,
    <<"2", "5">> }

\* an IPv6 caller, two blocks that hold it and one that does not
IPv6Caller == <<"2", "0", "0", "1", ":", "d", "b", "8", ":", ":", "1">>

IPv6Block == <<"2", "0", "0", "1", ":", "D", "B", "8", ":", ":", "/", "3", "2">>

IPv6All == <<":", ":", "/", "0">>

IPv6Other == <<"2", "0", "0", "1", ":", "d", "b", "9", ":", ":", "/", "3", "2">>

\* a block of 31 bits: it holds the caller, whose 32nd bit differs
IPv6Half == <<"2", "0", "0", "1", ":", "d", "b", "9", ":", ":", "/", "3", "1">>

\* source prefixes of rules: wildcards and their case variants, service tags,
\* addresses, CIDR blocks, malformed CIDR blocks, sources with surrounding
\* whitespace, and blocks written with a netmask or a hostmask
SourceSpecPool ==
  { <<"*">>,
    <<"I", "n", "t", "e", "r", "n", "e", "t">>,
    <<"i", "n", "t", "e", "r", "n", "e", "t">>,
    <<"A", "n", "y">>,
    <<"a", "n", "y">>,
    <<"A", "N", "Y">>,
    <<"V", "i", "r", "t", "u", "a", "l", "N", "e", "t", "w", "o", "r", "k">>,
    <<>>,
    <<"1", "9", "8", ".", "5", "1", ".", "1", "0", "0", ".", "7">>,
    <<"1", "9", "8", ".", "5", "1", ".", "1", "0", "0", ".", "7", "/", "3", "2">>,
    <<"1", "0", ".", "0", ".", "0", ".", "5">>,
    <<"2", "0", "3", ".", "0", ".", "1", "1", "3", ".", "9", "/", "3", "2">>,
    <<"1", "0", ".", "0", ".", "0", ".", "0", "/", "2", "4">>,
    <<"1", "0", ".", "0", ".", "0", ".", "7", "7", "/", "2", "4">>,
    <<"1", "0", ".", "0", ".", "0", ".", "0", "/", "2", "3">>,
    <<"0", ".", "0", ".", "0", ".", "0", "/", "0">>,
    <<"1", "0", ".", "0", ".", "0", ".", "0", "/", "8">>,
    <<"1", "0", ".", "0", ".", "0", ".", "0", "/", "9">>,
    <<"1", "0", ".", "1", "2", "8", ".", "0", ".", "0", "/", "9">>,
    <<"2", "0", "3", ".", "0", ".", "1", "1", "3", ".", "8", "/", "3", "1">>,
    <<"1", "0", ".", "0", ".", "0", ".", "0", "/", "3", "3">>,
    <<"1", "0", ".", "0", ".", "0", "/", "2", "4">>,
    <<"1", "0", ".", "0", ".", "0", ".", "0", "/">>,
    <<"/", "2", "4">>,
    <<"b", "o", "g", "u", "s", "/", "2", "4">>,
    <<"1", "0", ".", "0", ".", "0", ".", "2", "5", "6", "/", "2", "4">>,
    IPv6Block,
    IPv6All,
    IPv6Other,
    IPv6Half,
    <<" ", "I", "n", "t", "e", "r", "n", "e", "t", " ">>,
    <<" ", "*", " ">>,
    <<"A", "n", "y", " ">>,
    <<" ", "i", "n", "t", "e", "r", "n", "e", "t">>,
    <<" ", "1", "0", ".", "0", ".", "0", ".", "5">>,
    <<" ", "1", "0", ".", "0", ".", "0", ".", "0", "/", "2", "4", " ">>,
    <<"1", "0", ".", "0", ".", "0", ".", "0", "/", " ", "2", "4">>,
    <<"1", "0", ".", "0", ".", "0", ".", "0", "/", "2", "5", "5", ".", "2", "5", "5", ".", "2", "5", "5", ".", "0">>,
    <<"1", "0", ".", "0", ".", "0", ".", "0", "/", "2", "5", "5", ".", "2", "5", "5", ".", "2", "5", "4", ".", "0">>,
    <<"1", "0", ".", "0", ".", "0", ".", "0", "/", "0", ".", "0", ".", "0", ".", "2", "5", "5">>,
    <<"1", "0", ".", "0", ".", "0", ".", "0", "/", "0", ".", "0", ".", "1", ".", "2", "5", "5">>,
    <<"1", "0", ".", "0", ".", "0", ".", "0", "/", "2", "5", "5", ".", "2", "5", "5", ".", "2", "5", "5", ".", "2", "5", "5">>,
    <<"0", ".", "0", ".", "0", ".", "0", "/", "0", ".", "0", ".", "0", ".", "0">>,
    <<"1", "0", ".", "0", ".", "0", ".", "0", "/", "2", "5", "5", ".", "0", ".", "2", "5", "5", ".", "0">>,
    <<"0", "1", "0", ".", "0", ".", "0", ".", "0", "/", "8">>,
    <<"1", "0", ".", "0", ".", "0", ".", "0", "/", "0", "2", "4">>,
    <<"1", "0", ".", "0", ".", "0", ".", "0", "/", "+", "2", "4">>,
    <<"1", "0", ".", "0", ".", "0", ".", "0", "/", "2", "4", "/", "2", "4">> }

\* source addresses of callers
TargetAddressPool ==
  { <<"1", "9", "8", ".", "5", "1", ".", "1", "0", "0", ".", "7">>,
    <<"1", "0", ".", "0", ".", "0", ".", "5">>,
    <<"1", "0", ".", "0", ".", "1", ".", "5">>,
    <<"2", "0", "3", ".", "0", ".", "1", "1", "3", ".", "9">>,
    <<"1", "0", ".", "2", "0", "0", ".", "0", ".", "1">>,
    IPv6Caller }

InitMatch ==
  /\ PlannerIdle
  /\ VmIdle
  /\ \/ \E rule_port \in PortSpecPool, target_port \in TargetPortPool :
          call = [NoCall EXCEPT !.rule_port = rule_port, !.port = target_port]
     \/ \E rule_source \in SourceSpecPool, ip \in TargetAddressPool :
          call = [NoCall EXCEPT !.rule_source = rule_source, !.source_ip = ip]

PortMatches ==
  /\ call.fn = "none"
  /\ call' = [call EXCEPT !.fn = "port_matches",
                          !.matches = port_matches(call.rule_port, call.port)]
  /\ UNCHANGED <<nsg_rules, source_ip, os_info, clock, runs, last, prev, cloud, vm_run, session, test>>

SourceMatches ==
  /\ call.fn = "none"
  /\ call' = [call EXCEPT !.fn = "source_matches",
                          !.matches = source_matches(call.rule_source, call.source_ip)]
  /\ UNCHANGED <<nsg_rules, source_ip, os_info, clock, runs, last, prev, cloud, vm_run, session, test>>

NextMatch == PortMatches \/ SourceMatches

SpecMatch == InitMatch /\ [][NextMatch]_vars

(***************************************************************************)
(* detect_vm_os applied to bounded inputs                                  *)
(***************************************************************************)

\* osProfile of "vm show": null, empty, one configuration object, the other
\* one null or absent, both
OsProfilePool ==
  << None,
    <<>>,
    [computerName |-> <<"v", "m">>],
    [windowsConfiguration |-> [provisionVmAgent |-> TRUE]],
    [linuxConfiguration |-> [disablePasswordAuthentication |-> TRUE]],
    [windowsConfiguration |-> None,
     linuxConfiguration |-> [disablePasswordAuthentication |-> TRUE]],
    [windowsConfiguration |-> <<>>, linuxConfiguration |-> None],
    [windowsConfiguration |-> None, linuxConfiguration |-> None],
    [windowsConfiguration |-> <<>>, linuxConfiguration |-> <<>>] >>

\* storageProfile.osDisk
OsDiskPool ==
  << None,
    [name |-> <<"d", "i", "s", "k">>],
    [osType |-> None],
    [osType |-> <<>>],
    [osType |-> <<"W", "i", "n", "d", "o", "w", "s">>],
    [osType |-> <<"w", "i", "n", "d", "o", "w", "s">>],
    [osType |-> <<"L", "i", "n", "u", "x">>],
    [osType |-> <<"L", "I", "N", "U", "X">>],
    [osType |-> <<"O", "t", "h", "e", "r">>] >>

\* storageProfile.imageReference
ImageRefPool ==
  << None,
    [publisher |-> <<"C", "a", "n", "o", "n", "i", "c", "a", "l">>, offer |-> <<"U", "b", "u", "n", "t", "u", "S", "e", "r", "v", "e", "r">>, sku |-> <<"1", "8", ".", "0", "4", "-", "L", "T", "S">>],
    [publisher |-> <<"M", "i", "c", "r", "o", "s", "o", "f", "t", "W", "i", "n", "d", "o", "w", "s", "S", "e", "r", "v", "e", "r">>, offer |-> <<"W", "i", "n", "d", "o", "w", "s", "S", "e", "r", "v", "e", "r">>,
     sku |-> <<"2", "0", "1", "9", "-", "D", "a", "t", "a", "c", "e", "n", "t", "e", "r">>],
    [publisher |-> <<"C", "a", "n", "o", "n", "i", "c", "a", "l">>, offer |-> <<"u", "b", "u", "n", "t", "u">>, sku |-> <<"W", "I", "N", "1", "0", "-", "t", "o", "o", "l", "s">>],
    [publisher |-> <<"T", "w", "i", "n", "g", "a", "t", "e">>, offer |-> <<"c", "o", "n", "n", "e", "c", "t", "o", "r">>, sku |-> <<"l", "i", "n", "u", "x">>],
    [publisher |-> None, offer |-> <<"W", "i", "n", "d", "o", "w", "s", "-", "1", "0">>],
    [publisher |-> <<"R", "e", "d", "H", "a", "t">>, offer |-> <<"R", "H", "E", "L">>, sku |-> None],
    [id |-> <<"g", "a", "l", "l", "e", "r", "y">>] >>

\* the port_config argument
PortConfigPool ==
  << None,
    <<>>,
    [ssh_port |-> <<"2", "2", "2", "2">>],
    [rdp_port |-> <<"1", "3", "3", "8", "9">>],
    [ssh_port |-> <<"2", "2", "2", "2">>, rdp_port |-> <<"1", "3", "3", "8", "9">>],
    [ssh_port |-> DEFAULT_SSH_PORT, rdp_port |-> DEFAULT_RDP_PORT] >>

\* the JSON of "vm show": the whole object, one without storage profile, one
\* with a name only, the empty object
VmShow(shape, os_profile, os_disk, image_ref) ==
  IF shape = 1
    THEN [name |-> <<"v", "m", "1">>, osProfile |-> os_profile,
          storageProfile |-> [osDisk |-> os_disk, imageReference |-> image_ref]]
  ELSE IF shape = 2
    THEN [name |-> <<"v", "m", "2">>, osProfile |-> os_profile, storageProfile |-> None]
  ELSE IF shape = 3 THEN [name |-> <<"v", "m", "3">>]
  ELSE <<>>

InitClassify ==
  /\ PlannerIdle
  /\ VmIdle
  /\ \E shape \in 1..4, p \in 1..Len(OsProfilePool), d \in 1..Len(OsDiskPool),
        i \in 1..Len(ImageRefPool), c \in 1..Len(PortConfigPool) :
       /\ shape >= 2 => d = 1 /\ i = 1
       /\ shape >= 3 => p = 1
       /\ call = [NoCall EXCEPT
                     !.vm = VmShow(shape, OsProfilePool[p], OsDiskPool[d], ImageRefPool[i]),
                     !.port_config = PortConfigPool[c]]

DetectVmOs ==
  /\ call.fn = "none"
  /\ call' = [call EXCEPT !.fn = "detect_vm_os",
                          !.os_info = detect_vm_os(call.vm, call.port_config)]
  /\ UNCHANGED <<nsg_rules, source_ip, os_info, clock, runs, last, prev, cloud, vm_run, session, test>>

NextClassify == DetectVmOs

SpecClassify == InitClassify /\ [][NextClassify]_vars

(***************************************************************************)
(* process_vm on bounded network topologies                                *)
(***************************************************************************)

\* interfaces of the target
MaxNics == 2

\* networkSecurityGroup of an interface or a subnet: null or a reference
NsgRefPool == << None, [id |-> G1], [id |-> G2] >>

\* ipConfigurations of an interface: none, one subnet, two configurations in
\* one subnet, two subnets, a configuration without subnet
IpConfigPool ==
  << <<>>,
     << [subnet |-> [id |-> SubnetA]] >>,
     << [subnet |-> [id |-> SubnetA]], [subnet |-> [id |-> SubnetA]] >>,
     << [subnet |-> [id |-> SubnetA]], [subnet |-> [id |-> SubnetB]] >>,
     << [subnet |-> None], [subnet |-> [id |-> SubnetB]] >> >>

\* the IP configurations of the interfaces behind the first one: one subnet,
\* or a configuration without subnet and one in the other subnet
FurtherIpConfigs == {2, 5}

\* the provider state: n interfaces with the groups nic_nsg and the IP
\* configurations ip, the groups a and b on the two subnets, an empty group
\* G1 and a group G2 with an Allow rule for every source
Topology(n, nic_nsg, ip, a, b) ==
  [vm_nics |-> [m \in 1..n |-> NicId(m)],
   nics |-> [id \in {NicId(m) : m \in 1..n} |->
               LET m == CHOOSE m \in 1..n : NicId(m) = id
               IN  [name |-> <<"n", "i", "c">> \o Str(m),
                    networkSecurityGroup |-> NsgRefPool[nic_nsg[m]],
                    ipConfigurations |-> IpConfigPool[ip[m]]]],
   subnets |-> (SubnetA :> [networkSecurityGroup |-> NsgRefPool[a]])
               @@ (SubnetB :> [networkSecurityGroup |-> NsgRefPool[b]]),
   rules |-> (G1 :> <<>>)
             @@ (G2 :> << [AllowAll EXCEPT !.name = <<"r", "1">>, !.priority = 100] >>)]

InitVm ==
  /\ PlannerIdle
  /\ call = NoCall
  /\ \E n \in 0..MaxNics :
       \E nic_nsg \in [1..n -> 1..2], ip \in [1..n -> 1..Len(IpConfigPool)],
          a \in 1..3, b \in {1, 3} :
         /\ \A m \in 2..n : ip[m] \in FurtherIpConfigs
         /\ cloud = Topology(n, nic_nsg, ip, a, b)
         /\ vm_run = [NoVmRun EXCEPT !.before = cloud]
  /\ session = NoSession
  /\ test = NoTest

\* interfaces of a VM in whose run the token is refreshed
MaxRefreshNics == 1

\* the latest invocation of main in which the token is refreshed
MaxRefreshInvocation == 1

\* the sets `again` for a step of the run that makes the calls `made`
VmRefreshed(made) ==
  IF Len(vm_run.nic_ids) > MaxRefreshNics \/ session.invocation > MaxRefreshInvocation
    THEN {{}}
  ELSE Refreshed(Len(vm_run.repeated), made)

\* a step with outcome `out`: a failing call is one the step makes, the
\* calls of `again` are create, attach and delete commands of the step (a show
\* or list command that is submitted twice leaves the state of one that is
\* submitted once), and the step reads the clock only for the name of a group
\* or a rule it creates
VmStep(out, timestamp, fail_at, again) ==
  /\ (fail_at # 0) <=> (out.run.pc = "exited")
  /\ Len(out.run.repeated) = Len(vm_run.repeated) + Cardinality(again)
  /\ timestamp = clock \/ Len(out.run.commands) > Len(vm_run.commands)
  /\ clock' = timestamp
  /\ cloud' = out.cloud
  /\ vm_run' = out.run
  /\ UNCHANGED <<nsg_rules, source_ip, os_info, runs, last, prev, call, session, test>>

\* process_vm: detect_vm_os, get_vm_location, get_vm_network_interfaces
ProcessVmBegin ==
  /\ vm_run.pc = "start"
  /\ \E fail_at \in 0..1 : VmStep(BeginVm(cloud, vm_run, fail_at), clock, fail_at, {})

\* get_nsg_from_nic: "network nic show" and the interface's own group
ResolveNic ==
  /\ vm_run.pc = "nic"
  /\ \E fail_at \in 0..1 : VmStep(NicShow(cloud, vm_run, fail_at), clock, fail_at, {})

\* get_nsg_from_nic: one turn of the loop over the IP configurations
ResolveSubnet ==
  /\ vm_run.pc = "subnets"
  /\ vm_run.j <= Len(vm_run.ip_configs)
  /\ \E fail_at \in 0..4, timestamp \in ReadClock(clock), reply \in IdReplies :
     \E again \in VmRefreshed(Calls(2, 4, fail_at)) :
       VmStep(AfterSubnet(SubnetStep(cloud, vm_run, vm_run.ip_configs[vm_run.j].subnet,
                                     timestamp, reply, fail_at, again)),
              timestamp, fail_at, again)

\* get_nsg_from_nic: the auto-creation for the interface and the return;
\* process_vm: the groups returned are added to all_nsgs
ResolveNicGroup ==
  /\ vm_run.pc = "subnets"
  /\ vm_run.j > Len(vm_run.ip_configs)
  /\ \E fail_at \in 0..3, timestamp \in ReadClock(clock), reply \in IdReplies :
     \E again \in VmRefreshed(Calls(1, 3, fail_at)) :
       VmStep(AfterNicGroup(NicGroup(cloud, vm_run, timestamp, reply, fail_at, again)),
              timestamp, fail_at, again)

\* process_vm: add_access_rule_to_nsg(nsg["id"], source_ip, os_info)
EnsureGroup ==
  /\ vm_run.pc = "rules"
  /\ \E timestamp \in ReadClock(clock) :
       \E fail_at \in 0..(Len(RulesOf(cloud, Split(vm_run.all_nsgs[vm_run.i].id, "/"))) + 3) :
       \E once \in {add_access_rule_to_nsg(
                       RulesOf(cloud, Split(vm_run.all_nsgs[vm_run.i].id, "/")),
                       source_ip, os_info, timestamp, fail_at, {})} :
       \E again \in VmRefreshed(Commands(once)) :
         VmStep(Ensured(cloud, vm_run, vm_run.all_nsgs[vm_run.i].id,
                        ResubmittedRules(once, again)),
                timestamp, fail_at, again)

NextVm ==
  ProcessVmBegin \/ ResolveNic \/ ResolveSubnet \/ ResolveNicGroup \/ EnsureGroup

SpecVm == InitVm /\ [][NextVm]_vars

(***************************************************************************)
(* main with --all: process_vm for every VM of "vm list", one after the    *)
(* other.  sys.exit(1) in run_az_command or find_available_priority raises *)
(* SystemExit, which neither process_vm nor main catches: the process      *)
(* ends where the call failed.                                             *)
(***************************************************************************)

\* VMs in the answer to "vm list"
MaxTargets == 2

VmName(n) == <<"v", "m">> \o Str(n)

\* n VMs; VM m has the interface m
VmList(n) == [m \in 1..n |-> [name |-> VmName(m), nics |-> <<NicId(m)>>]]

InitBatch ==
  /\ PlannerIdle
  /\ call = NoCall
  /\ test = NoTest
  /\ \E n \in 1..MaxTargets :
       \E nic_nsg \in [1..n -> 1..2], ip \in [1..n -> FurtherIpConfigs], a \in 1..2 :
         /\ cloud = [Topology(n, nic_nsg, ip, a, 1) EXCEPT !.vm_nics = <<>>]
         /\ session = [NoSession EXCEPT !.mode = "all", !.targets = VmList(n),
                                        !.status = "running", !.invocation = 1]
  /\ vm_run = [NoVmRun EXCEPT !.pc = "none"]

\* for idx, vm in enumerate(vms, 1): process_vm(vm["id"], ...), up to the
\* first statement of process_vm; "vm show" then answers for that VM
BeginTarget(provider, loop, target) ==
  [cloud |-> [provider EXCEPT !.vm_nics = target.nics],
   session |-> [loop EXCEPT !.idx = @ + 1, !.processed = Append(@, target.name)],
   run |-> [NoVmRun EXCEPT !.vm_name = target.name,
                           !.before = [provider EXCEPT !.vm_nics = target.nics]]]

NextTarget ==
  /\ session.status = "running"
  /\ vm_run.pc \in {"none", "done", "returned"}
  /\ session.idx < Len(session.targets)
  /\ cloud' = BeginTarget(cloud, session, session.targets[session.idx + 1]).cloud
  /\ session' = BeginTarget(cloud, session, session.targets[session.idx + 1]).session
  /\ vm_run' = BeginTarget(cloud, session, session.targets[session.idx + 1]).run
  /\ UNCHANGED <<nsg_rules, source_ip, os_info, clock, runs, last, prev, call, test>>

\* the loop is through: print_completion_banner
EndBatch ==
  /\ session.status = "running"
  /\ vm_run.pc \in {"done", "returned"}
  /\ session.idx = Len(session.targets)
  /\ session' = [session EXCEPT !.status = "completed"]
  /\ UNCHANGED <<nsg_rules, source_ip, os_info, clock, runs, last, prev, call, cloud,
                 vm_run, test>>

NextBatch ==
  \/ NextTarget
  \/ ProcessVmBegin
  \/ ResolveNic
  \/ ResolveSubnet
  \/ ResolveNicGroup
  \/ EnsureGroup
  \/ EndBatch

SpecBatch == InitBatch /\ [][NextBatch]_vars

\* the for loop goes on with the next VM as long as there is one
SpecBatchLive == SpecBatch /\ WF_vars(NextTarget)

(***************************************************************************)
(* The tool invoked a second time for the same VM after an invocation that *)
(* a failed provider call ended: process_vm starts anew on the provider    *)
(* state the ended invocation left.                                        *)
(***************************************************************************)

\* three rules of one signature: two of them are marked as duplicates
ThreeAlike ==
  << [DenyAll EXCEPT !.name = <<"r", "1">>, !.priority = 100],
     [DenyAll EXCEPT !.name = <<"r", "2">>, !.priority = 101],
     [DenyAll EXCEPT !.name = <<"r", "3">>, !.priority = 102] >>

\* one interface with or without group in one or two subnets, or two
\* interfaces that share the subnet snA, which has no group; the group G1
\* is empty or holds the three rules
InitResume ==
  /\ PlannerIdle
  /\ call = NoCall
  /\ test = NoTest
  /\ \E n \in 1..MaxNics :
       \E nic_nsg \in [1..n -> 1..2], ip \in [1..n -> {2, 4}], a \in 1..2, b \in {1} :
         /\ \A m \in 2..n : ip[m] = 2 /\ nic_nsg[m] = 1
         /\ n >= 2 => ip[1] = 2 /\ a = 1
         /\ \E rules \in {<<>>, ThreeAlike} :
              cloud = [Topology(n, nic_nsg, ip, a, b) EXCEPT !.rules[G1] = rules]
         /\ vm_run = [NoVmRun EXCEPT !.before = cloud]
  /\ session = [NoSession EXCEPT !.mode = "single", !.targets = VmList(1),
                                 !.idx = 1, !.processed = <<VmName(1)>>,
                                 !.status = "running", !.invocation = 1,
                                 !.initial = cloud]

\* process_vm of a new process: no local of the ended one is left
Resumed(run, provider) == [NoVmRun EXCEPT !.vm_name = run.vm_name, !.before = provider]

\* main with --resource-id, again, after sys.exit(1) ended the invocation
Reinvoke ==
  /\ vm_run.pc = "exited"
  /\ session.invocation = 1
  /\ session' = [session EXCEPT !.invocation = @ + 1, !.ended_in = vm_run.failed]
  /\ vm_run' = Resumed(vm_run, cloud)
  /\ UNCHANGED <<nsg_rules, source_ip, os_info, clock, runs, last, prev, call, cloud, test>>

NextResume ==
  \/ ProcessVmBegin
  \/ ResolveNic
  \/ ResolveSubnet
  \/ ResolveNicGroup
  \/ EnsureGroup
  \/ Reinvoke

SpecResume == InitResume /\ [][NextResume]_vars

(***************************************************************************)
(* run_connectivity_test, in steps: the power state, the start offer, the  *)
(* start command, the wait and the recursive call, the public address, the *)
(* TCP handshake.  `fails` is the set of the provider calls of a step,     *)
(* counted from 1, that run_az_command ends with sys.exit(1); `again` is   *)
(* the set of those whose command is submitted a second time.              *)
(***************************************************************************)

S_Unknown == <<"U", "n", "k", "n", "o", "w", "n">>

S_VM_running == <<"V", "M", " ", "r", "u", "n", "n", "i", "n", "g">>

S_deallocated == <<"d", "e", "a", "l", "l", "o", "c", "a", "t", "e", "d">>

S_stopped == <<"s", "t", "o", "p", "p", "e", "d">>

\* value or "Unknown"
OrUnknown(value) == IF OrEmpty(value) = <<>> THEN S_Unknown ELSE value

\* get_vm_power_state on the JSON `result` of "vm get-instance-view"
get_vm_power_state(result) ==
  [power_state |-> OrUnknown(Get(result, "powerState", S_Unknown)),
   provisioning_state |-> OrUnknown(Get(result, "provisioningState", S_Unknown)),
   is_running |-> OrUnknown(Get(result, "powerState", S_Unknown)) = S_VM_running]

\* run_connectivity_test behind the power state: the start offer for a
\* deallocated or stopped VM, step 2 for every other state
AfterPower(power_info) ==
  IF power_info.is_running THEN "resolve"
  ELSE IF InStr(S_deallocated, Lower(power_info.power_state)) THEN "offer"
  ELSE IF InStr(S_stopped, Lower(power_info.power_state)) THEN "offer"
  ELSE "resolve"

\* answer = input(...).strip().lower(); if answer in ("y", "yes")
Accepted(typed) == Lower(Strip(typed)) \in {<<"y">>, <<"y", "e", "s">>}

\* the locals of get_vm_public_ip_from_primary_nic: the provider calls made
\* so far, the address to return (<<>>: none yet), whether sys.exit(1) ended
\* the process, whether the function has returned
\* calls: the calls of run_az_command made; repeated: those of them whose
\* command was submitted twice; direct: the address found through an
\* interface; address: the address returned
NoLookup ==
  [calls |-> <<>>, repeated |-> <<>>, direct |-> <<>>, address |-> <<>>,
   exited |-> FALSE, returned |-> FALSE]

\* a provider call of the lookup is made
Called(st, command) == [st EXCEPT !.calls = Append(@, command)]

\* the call made last is one that fails
LastFails(st, fails) == Len(st.calls) \in fails

\* public_ip_ref.get("id") or public_ip_ref.get("Id") or ""
RefId(public_ip_ref) ==
  IF OrEmpty(Get(public_ip_ref, "id", None)) # <<>> THEN public_ip_ref.id
  ELSE OrEmpty(Get(public_ip_ref, "Id", None))

\* public_ip_resource.get("ipAddress") or public_ip_resource.get("IpAddress") or ""
ResourceAddress(public_ip_resource) ==
  IF OrEmpty(Get(public_ip_resource, "ipAddress", None)) # <<>>
  THEN public_ip_resource.ipAddress
  ELSE OrEmpty(Get(public_ip_resource, "IpAddress", None))

\* if ip_address and ip_address.lower() not in ("none", ""): return ip_address
WithResource(st, ip_address) ==
  IF ip_address # <<>> /\ Lower(ip_address) \notin {<<"n", "o", "n", "e">>, <<>>}
  THEN [st EXCEPT !.direct = ip_address, !.address = ip_address, !.returned = TRUE]
  ELSE st

\* "network public-ip show" for the id of the reference; a failing call is
\* caught by "except SystemExit: continue"
ShowPublicIp(st, public_ip_id, public_ips, fails) ==
  IF LastFails(st, fails) THEN st
  ELSE WithResource(st, ResourceAddress(public_ips[public_ip_id]))

\* one turn of "for ip_config in ip_configs"
ConfigLookup(st, ip_config, public_ips, fails) ==
  IF st.returned \/ st.exited THEN st
  ELSE IF OrEmpty(Get(ip_config, "publicIpAddress", None)) = <<>> THEN st
  ELSE IF RefId(ip_config.publicIpAddress) = <<>> THEN st
  ELSE ShowPublicIp(Called(st, "public-ip show"), RefId(ip_config.publicIpAddress),
                    public_ips, fails)

\* the first n turns of "for ip_config in ip_configs"
RECURSIVE ConfigsLookup(_, _, _, _, _)
ConfigsLookup(st, ip_configs, public_ips, fails, n) ==
  IF n = 0 THEN st
  ELSE ConfigLookup(ConfigsLookup(st, ip_configs, public_ips, fails, n - 1),
                    ip_configs[n], public_ips, fails)

\* "network nic show": a failing call ends the process
ShowNic(st, nic, public_ips, fails) ==
  IF LastFails(st, fails) THEN [st EXCEPT !.exited = TRUE]
  ELSE ConfigsLookup(st, Get(nic, "ipConfigurations", <<>>), public_ips, fails,
                     Len(Get(nic, "ipConfigurations", <<>>)))

\* one turn of "for nic_id in public_ip_ids"
NicLookup(st, nic, public_ips, fails) ==
  IF st.returned \/ st.exited THEN st
  ELSE ShowNic(Called(st, "nic show"), nic, public_ips, fails)

\* the first n turns of "for nic_id in public_ip_ids"
RECURSIVE NicsLookup(_, _, _, _, _)
NicsLookup(st, nics, public_ips, fails, n) ==
  IF n = 0 THEN st
  ELSE NicLookup(NicsLookup(st, nics, public_ips, fails, n - 1), nics[n], public_ips, fails)

\* if ip_list and isinstance(ip_list, str) and ip_list.lower() not in
\* ("none", "null", ""): return ip_list; a failing call is caught
WithIpList(st, ip_list, fails) ==
  IF LastFails(st, fails) THEN [st EXCEPT !.returned = TRUE]
  ELSE IF OrEmpty(ip_list) # <<>> /\ Lower(OrEmpty(ip_list)) \notin {<<"n", "o", "n", "e">>, <<"n", "u", "l", "l">>, <<>>}
  THEN [st EXCEPT !.address = ip_list, !.returned = TRUE]
  ELSE [st EXCEPT !.returned = TRUE]

\* mutant: the aggregate lookup is made whatever the direct lookup found
Fallback_Always(st, ip_list, fails) ==
  IF st.exited THEN st
  ELSE WithIpList(Called(st, "list-ip-addresses"), ip_list, fails)

\* the fallback to "vm list-ip-addresses" behind the loop over the interfaces
Fallback(st, ip_list, fails) ==
  IF st.returned \/ st.exited THEN st
  ELSE WithIpList(Called(st, "list-ip-addresses"), ip_list, fails)

\* the lookup that made the calls of `st`, those numbered in `again` with
\* two submissions of the command
Resubmitted(st, again) == [st EXCEPT !.repeated = Repeated(st.calls, again, 0, Len(st.calls))]

\* "vm show" for the interface ids: a failing call ends the process, an
\* empty list is answered with None
ShowVm(st, nics, public_ips, ip_list, fails) ==
  IF LastFails(st, fails) THEN [st EXCEPT !.exited = TRUE]
  ELSE IF nics = <<>> THEN [st EXCEPT !.returned = TRUE]
  ELSE Fallback(NicsLookup(st, nics, public_ips, fails, Len(nics)), ip_list, fails)

\* get_vm_public_ip_from_primary_nic on a VM with the interfaces `nics`, the
\* public address resources `public_ips` and the answer `ip_list` of
\* "vm list-ip-addresses"
get_vm_public_ip_from_primary_nic(nics, public_ips, ip_list, fails, again) ==
  Resubmitted(ShowVm(Called(NoLookup, "vm show"), nics, public_ips, ip_list, fails), again)

\* error_messages.get(error_code, f"Error code {error_code}")
ErrorMessage(error_code) ==
  IF error_code \in {10061, 111} THEN <<"C", "o", "n", "n", "e", "c", "t", "i", "o", "n", " ", "r", "e", "f", "u", "s", "e", "d">>
  ELSE IF error_code \in {10060, 110} THEN <<"C", "o", "n", "n", "e", "c", "t", "i", "o", "n", " ", "t", "i", "m", "e", "d", " ", "o", "u", "t">>
  ELSE IF error_code \in {10065, 113} THEN <<"N", "o", " ", "r", "o", "u", "t", "e", " ", "t", "o", " ", "h", "o", "s", "t">>
  ELSE IF error_code \in {10064, 112} THEN <<"H", "o", "s", "t", " ", "i", "s", " ", "d", "o", "w", "n">>
  ELSE IF error_code \in {10051, 101} THEN <<"N", "e", "t", "w", "o", "r", "k", " ", "u", "n", "r", "e", "a", "c", "h", "a", "b", "l", "e">>
  ELSE <<"E", "r", "r", "o", "r", " ", "c", "o", "d", "e", " ">> \o Str(error_code)

PortError == <<"c", "o", "n", "n", "e", "c", "t", "_", "e", "x", "(", ")", ":", " ", "p", "o", "r", "t", " ", "m", "u", "s", "t", " ", "b", "e", " ", "0", "-", "6", "5", "5", "3", "5", ".">>

\* f"{latency_ms}" for latency_ms = round((end_time - start_time) * 1000, 1),
\* given as `latency` in tenths of a millisecond
LatencyStr(latency) == Str(latency \div 10) \o <<".">> \o Str(latency % 10)

\* the message of the except clause that catches the exception `raised`,
\* whose str() is `text`
RaisedMessage(raised, text, timeout) ==
  IF raised = "timeout"
    THEN <<"C", "o", "n", "n", "e", "c", "t", "i", "o", "n", " ", "t", "i", "m", "e", "d", " ", "o", "u", "t", " ", "a", "f", "t", "e", "r", " ">> \o Str(timeout) \o <<"s">>
  ELSE IF raised = "gaierror"
    THEN <<"D", "N", "S", " ", "r", "e", "s", "o", "l", "u", "t", "i", "o", "n", " ", "f", "a", "i", "l", "e", "d", ":", " ">> \o text
  ELSE IF raised = "oserror"
    THEN <<"S", "o", "c", "k", "e", "t", " ", "e", "r", "r", "o", "r", ":", " ">> \o text
  ELSE <<"U", "n", "e", "x", "p", "e", "c", "t", "e", "d", " ", "e", "r", "r", "o", "r", ":", " ">> \o text

\* the result of test_tcp_handshake when connect_ex has returned error_code
\* after `latency`
Connected(host, port, error_code, latency) ==
  [success |-> error_code = 0,
   message |-> (IF error_code = 0 THEN <<"T", "C", "P", " ", "h", "a", "n", "d", "s", "h", "a", "k", "e", " ", "s", "u", "c", "c", "e", "e", "d", "e", "d">>
                ELSE ErrorMessage(error_code))
               \o <<" ", "(">> \o LatencyStr(latency) \o <<"m", "s", ")">>,
   latency_ms |-> LatencyStr(latency),
   host |-> host,
   port |-> port]

\* what the socket does in one call of test_tcp_handshake: connect_ex
\* returns error_code after `latency`; raised is "none", or the exception
\* ("timeout": socket.timeout, "gaierror": socket.gaierror, "oserror": another
\* OSError, "exception": any other Exception) that is raised `at` "connect"
\* (socket(), settimeout(), connect_ex()) or at "close" (sock.close()), and
\* text is its str().  connect_ex refuses a port outside 0..65535 with an
\* OverflowError of the text PortError.
SocketOk(port, sock) ==
  port \notin 0..65535 =>
    sock.raised = "exception" /\ sock.at = "connect" /\ sock.text = PortError

\* test_tcp_handshake(host, port, timeout) on a socket that behaves as `sock`
test_tcp_handshake(host, port, timeout, sock) ==
  IF sock.raised = "none" THEN Connected(host, port, sock.error_code, sock.latency)
  ELSE IF sock.at = "close"
    THEN [Connected(host, port, sock.error_code, sock.latency)
            EXCEPT !.message = RaisedMessage(sock.raised, sock.text, timeout)]
  ELSE [success |-> FALSE,
        message |-> RaisedMessage(sock.raised, sock.text, timeout),
        latency_ms |-> None,
        host |-> host,
        port |-> port]

\* sys.exit(1) in a provider call of run_connectivity_test
TestExit(run) == [run EXCEPT !.pc = "exited", !.outcome = "exited"]

\* step 1 of run_connectivity_test on the JSON `result` of the power query
CheckPower(run, result, fails, again) ==
  IF 1 \in fails
    THEN TestExit([run EXCEPT !.checks = @ + 1,
                              !.repeated = @ \o Repeated(<<"get-instance-view">>, again, 0, 1)])
  ELSE [run EXCEPT !.checks = @ + 1,
                   !.repeated = @ \o Repeated(<<"get-instance-view">>, again, 0, 1),
                   !.power_info = get_vm_power_state(result),
                   !.pc = AfterPower(get_vm_power_state(result))]

\* mutant: the VM is started whatever the operator typed
Offer_AlwaysStarts(run, typed) ==
  [run EXCEPT !.answer = typed,
              !.accepts = IF Accepted(typed) THEN @ + 1 ELSE @,
              !.pc = "start"]

\* the start offer for a deallocated or stopped VM
Offer(run, typed) ==
  [run EXCEPT !.answer = typed,
              !.accepts = IF Accepted(typed) THEN @ + 1 ELSE @,
              !.pc = IF Accepted(typed) THEN "start" ELSE "return",
              !.outcome = IF Accepted(typed) THEN @ ELSE "not running"]

\* "vm start" up to time.sleep(10); run_az_command returns the output of
\* a command that succeeds, so that "result is not None" holds
StartVm(run, fails, again) ==
  IF 1 \in fails
    THEN TestExit([run EXCEPT !.starts = @ + 1,
                              !.repeated = @ \o Repeated(<<"vm start">>, again, 0, 1)])
  ELSE [run EXCEPT !.starts = @ + 1,
                   !.repeated = @ \o Repeated(<<"vm start">>, again, 0, 1),
                   !.pc = "sleep"]

\* the recursive call behind time.sleep(10), up to its first statement
Restart(run) ==
  [run EXCEPT !.restarts = @ + 1,
              !.depth = @ + 1,
              !.pc = "power"]

\* step 2 of run_connectivity_test on the outcome `lookup` of
\* get_vm_public_ip_from_primary_nic
ResolveAddress(run, lookup) ==
  IF lookup.exited
    THEN TestExit([run EXCEPT !.resolutions = @ + 1, !.lookup = lookup,
                              !.repeated = @ \o lookup.repeated])
  ELSE IF lookup.address = <<>>
  THEN [run EXCEPT !.resolutions = @ + 1, !.lookup = lookup,
                   !.repeated = @ \o lookup.repeated,
                   !.pc = "return", !.outcome = "no address"]
  ELSE [run EXCEPT !.resolutions = @ + 1, !.lookup = lookup,
                   !.repeated = @ \o lookup.repeated,
                   !.public_ip = lookup.address, !.pc = "probe"]

\* step 3 of run_connectivity_test
Probe(run, result) ==
  [run EXCEPT !.probes = @ + 1, !.result = result, !.pc = "return",
              !.outcome = IF result.success THEN "reachable" ELSE "unreachable"]

\* mutant: the call that made the recursive call goes on with step 2
Return_FallsThrough(run) ==
  IF run.depth = 0 THEN [run EXCEPT !.pc = "ended"]
  ELSE [run EXCEPT !.depth = @ - 1, !.pc = "resolve"]

\* a call of run_connectivity_test returns: to the caller of the test, or
\* to the call that made the recursive call, which returns next
Return(run) ==
  IF run.depth = 0 THEN [run EXCEPT !.pc = "ended"]
  ELSE [run EXCEPT !.depth = @ - 1, !.pc = "return"]

\* accepted start offers in one run
MaxAccepts == 2

\* provider calls of one address lookup that fail
MaxFails == 2

\* "vm get-instance-view": running, deallocated, stopped, starting, no
\* power state, and a state in upper case
PowerPool ==
  << [powerState |-> S_VM_running, provisioningState |-> <<"S", "u", "c", "c", "e", "e", "d", "e", "d">>],
     [powerState |-> <<"V", "M", " ", "d", "e", "a", "l", "l", "o", "c", "a", "t", "e", "d">>, provisioningState |-> <<"S", "u", "c", "c", "e", "e", "d", "e", "d">>],
     [powerState |-> <<"V", "M", " ", "s", "t", "o", "p", "p", "e", "d">>, provisioningState |-> <<"S", "u", "c", "c", "e", "e", "d", "e", "d">>],
     [powerState |-> <<"V", "M", " ", "s", "t", "a", "r", "t", "i", "n", "g">>, provisioningState |-> <<"U", "p", "d", "a", "t", "i", "n", "g">>],
     [powerState |-> None, provisioningState |-> None],
     [powerState |-> <<"V", "M", " ", "S", "t", "o", "p", "p", "e", "d">>, provisioningState |-> <<"S", "u", "c", "c", "e", "e", "d", "e", "d">>] >>

\* what the operator types at the start offer
AnswerPool == {<<"y">>, <<" ", "Y", "e", "s", " ">>, <<"Y", "E", "S">>, <<"n">>, <<>>, <<"y", "e", "p">>}

P1 == <<"/", "s", "u", "b", "s", "c", "r", "i", "p", "t", "i", "o", "n", "s", "/", "s", "/", "r", "e", "s", "o", "u", "r", "c", "e", "G", "r", "o", "u", "p", "s", "/", "r", "g", "1", "/", "p", "r", "o", "v", "i", "d", "e", "r", "s", "/", "M", "i", "c", "r", "o", "s", "o", "f", "t", ".", "N", "e", "t", "w", "o", "r", "k", "/", "p", "u", "b", "l", "i", "c", "I", "P", "A", "d", "d", "r", "e", "s", "s", "e", "s", "/", "p", "1">>

P2 == <<"/", "s", "u", "b", "s", "c", "r", "i", "p", "t", "i", "o", "n", "s", "/", "s", "/", "r", "e", "s", "o", "u", "r", "c", "e", "G", "r", "o", "u", "p", "s", "/", "r", "g", "1", "/", "p", "r", "o", "v", "i", "d", "e", "r", "s", "/", "M", "i", "c", "r", "o", "s", "o", "f", "t", ".", "N", "e", "t", "w", "o", "r", "k", "/", "p", "u", "b", "l", "i", "c", "I", "P", "A", "d", "d", "r", "e", "s", "s", "e", "s", "/", "p", "2">>

Address1 == <<"2", "0", ".", "1", ".", "2", ".", "3">>

Address2 == <<"2", "0", ".", "9", ".", "9", ".", "9">>

\* publicIpAddress of an IP configuration
PublicIpRefPool == << None, [id |-> P1], [Id |-> P2], [id |-> <<>>] >>

\* ipConfigurations of an interface, as indexes of PublicIpRefPool
TestIpConfigPool == << <<>>, <<1>>, <<2>>, <<3>>, <<1, 2>>, <<4, 3>>, <<2, 3>> >>

\* the interfaces of the VM, as indexes of TestIpConfigPool
TestNicsPool == << <<>>, <<1>>, <<2>>, <<3>>, <<4>>, <<5>>, <<6>>, <<1, 3>>, <<2, 2>>, <<7, 6>> >>

\* the interface with the IP configurations TestIpConfigPool[c]
TestNic(c) ==
  [name |-> <<"n", "i", "c">>,
   ipConfigurations |->
     [k \in 1..Len(TestIpConfigPool[c]) |->
        [name |-> <<"i", "p", "c", "o", "n", "f", "i", "g">>, publicIpAddress |-> PublicIpRefPool[TestIpConfigPool[c][k]]]]]

\* the address resources: p1 with or without address, p2 under the other key
PublicIpsPool ==
  << [id \in {P1, P2} |-> IF id = P1 THEN [ipAddress |-> Address1] ELSE [IpAddress |-> Address2]],
     [id \in {P1, P2} |-> IF id = P1 THEN [ipAddress |-> None] ELSE [IpAddress |-> Address2]],
     [id \in {P1, P2} |-> IF id = P1 THEN [ipAddress |-> <<"N", "o", "n", "e">>] ELSE [ipAddress |-> <<>>]] >>

\* the answer of "vm list-ip-addresses"
IpListPool == << None, Address2, <<"n", "u", "l", "l">> >>

InitTest ==
  /\ PlannerIdle
  /\ call = NoCall
  /\ cloud = NoCloud
  /\ vm_run = NoVmRun
  /\ session = NoSession
  /\ \E info \in {LinuxInfo, WindowsInfo,
                   [LinuxInfo EXCEPT !.port = <<"7", "0", "0", "0", "0">>]} :
       test = [NoTest EXCEPT !.pc = "power", !.target = info]

TestStep(run) ==
  /\ test' = run
  /\ UNCHANGED <<nsg_rules, source_ip, os_info, clock, runs, last, prev, call, cloud,
                 vm_run, session>>

\* get_vm_power_state(resource_id) and the branch on the state
QueryPower ==
  /\ test.pc = "power"
  /\ \E p \in 1..Len(PowerPool), fails \in SUBSET {1},
        again \in Refreshed(Len(test.repeated), {1}) :
       TestStep(CheckPower(test, PowerPool[p], fails, again))

\* input(...) at the start offer
AnswerOffer ==
  /\ test.pc = "offer"
  /\ \E typed \in AnswerPool :
       /\ Accepted(typed) => test.restarts < MaxAccepts
       /\ TestStep(Offer(test, typed))

\* run_az_command(["vm", "start", ...])
StartTarget ==
  /\ test.pc = "start"
  /\ \E fails \in SUBSET {1}, again \in Refreshed(Len(test.repeated), {1}) :
       TestStep(StartVm(test, fails, again))

\* time.sleep(10) is over: run_connectivity_test(resource_id, os_info)
RestartTest ==
  /\ test.pc = "sleep"
  /\ TestStep(Restart(test))

\* the lookup made the calls numbered in `again`
LookupStep(lookup, again) ==
  /\ again \subseteq 1..Len(lookup.calls)
  /\ TestStep(ResolveAddress(test, lookup))

\* get_vm_public_ip_from_primary_nic(resource_id) and the branch on it
ResolvePublicIp ==
  /\ test.pc = "resolve"
  /\ \E n \in 1..Len(TestNicsPool), ips \in 1..Len(PublicIpsPool),
        l \in 1..Len(IpListPool),
        fails \in {f \in SUBSET (1..6) : Cardinality(f) <= MaxFails},
        again \in Refreshed(Len(test.repeated), 1..6) :
       LookupStep(get_vm_public_ip_from_primary_nic(
                    [m \in 1..Len(TestNicsPool[n]) |-> TestNic(TestNicsPool[n][m])],
                    PublicIpsPool[ips], IpListPool[l], fails, again),
                  again)

\* timeout: int = 5
DefaultTimeout == 5

\* what the socket does: the handshake after 12.3 ms, the codes of a refused
\* and of a timed out connection and one without a message of its own, and
\* the exceptions before and after connect_ex
SocketPool ==
  [error_code : {0, 111, 110, 13}, latency : {123}, raised : {"none"},
   at : {"connect"}, text : {<<>>}]
    \cup [error_code : {0}, latency : {0, 50012}, raised : {"none"},
          at : {"connect"}, text : {<<>>}]
    \cup [error_code : {0}, latency : {123}, raised : {"exception"},
          at : {"connect"}, text : {PortError}]
    \cup [error_code : {0, 111}, latency : {123}, raised : {"oserror"},
          at : {"close"}, text : {<<"[", "E", "r", "r", "n", "o", " ", "9", "]">>}]
    \cup [error_code : {0}, latency : {123},
          raised : {"timeout", "gaierror", "oserror", "exception"},
          at : {"connect"}, text : {<<"[", "E", "r", "r", "n", "o", " ", "-", "2", "]", " ", "N", "a", "m", "e", " ", "o", "r", " ", "s", "e", "r", "v", "i", "c", "e", " ", "n", "o", "t", " ", "k", "n", "o", "w", "n">>}]

\* test_tcp_handshake(public_ip, port)
ProbeTarget ==
  /\ test.pc = "probe"
  /\ \E sock \in SocketPool :
       /\ SocketOk(IntVal(test.target.port), sock)
       /\ TestStep(Probe(test, test_tcp_handshake(test.public_ip, IntVal(test.target.port),
                                                  DefaultTimeout, sock)))

\* return from a call of run_connectivity_test
ReturnFromTest ==
  /\ test.pc = "return"
  /\ TestStep(Return(test))

NextTest ==
  \/ QueryPower
  \/ AnswerOffer
  \/ StartTarget
  \/ RestartTest
  \/ ResolvePublicIp
  \/ ProbeTarget
  \/ ReturnFromTest

SpecTest == InitTest /\ [][NextTest]_vars

(***************************************************************************)
(* Properties                                                              *)
(***************************************************************************)

Range(seq) == {seq[i] : i \in 1..Len(seq)}

Priorities(rules) == {rules[i].priority : i \in 1..Len(rules)}

IsAllow(rule) == Lower(rule.access) = S_allow

IsDeny(rule) == Lower(rule.access) = S_deny

\* the source prefixes and the port specs of a rule, single and listed
SourceSet(rule) == {rule.sourceAddressPrefix} \cup Range(rule.sourceAddressPrefixes)

PortSet(rule) == {rule.destinationPortRange} \cup Range(rule.destinationPortRanges)

\* an inbound TCP-or-wildcard rule whose source set and port set cover the request
Covers(rule, ip, port) ==
  /\ Lower(rule.direction) = S_inbound
  /\ Lower(rule.protocol) \in {S_tcp, S_star}
  /\ \E prefix \in SourceSet(rule) : source_matches(prefix, ip)
  /\ \E spec \in PortSet(rule) : port_matches(spec, port)

\* the covering rules of lowest priority number
FirstCovering(rules, ip, port) ==
  {r \in Range(rules) :
     /\ Covers(r, ip, port)
     /\ \A q \in Range(rules) : Covers(q, ip, port) => r.priority <= q.priority}

\* the rules that grant the request: first covering, and Allow
Granting(rules, ip, port) == {r \in FirstCovering(rules, ip, port) : IsAllow(r)}

CheckApplied == call.fn = "check_existing_allow_rule"

\* C1: when the covering rule of lowest priority number is a Deny,
\* check_existing_allow_rule returns None, so no Allow rule behind that Deny.
C1_DenyShadowsLaterAllow ==
  CheckApplied =>
    ((\E d \in FirstCovering(call.existing_rules, call.source_ip, call.port) : IsDeny(d))
       => call.matching_rule = None)

C1_Witness ==
  /\ CheckApplied
  /\ call.matching_rule = None
  /\ \E d \in FirstCovering(call.existing_rules, call.source_ip, call.port),
        a \in Range(call.existing_rules) :
       /\ IsDeny(d)
       /\ IsAllow(a)
       /\ Covers(a, call.source_ip, call.port)
       /\ a.priority > d.priority

\* C2: check_existing_allow_rule returns rule R exactly when R is an Allow and
\* is the first rule, in ascending priority number among the inbound
\* TCP-or-wildcard rules, whose source set and port set cover the request;
\* it returns None exactly when there is no such rule.
C2_ReturnsFirstCoveringAllow ==
  CheckApplied =>
    /\ \A r \in Range(call.existing_rules) :
         (call.matching_rule = r) <=>
           (r \in Granting(call.existing_rules, call.source_ip, call.port))
    /\ (call.matching_rule = None) <=>
         (Granting(call.existing_rules, call.source_ip, call.port) = {})

\* the returned rule stands first in the list, behind it stands an inbound TCP
\* rule of lower priority number that does not cover the request
C2_Witness ==
  /\ CheckApplied
  /\ Len(call.existing_rules) = 2
  /\ call.matching_rule = call.existing_rules[1]
  /\ call.existing_rules[2].priority < call.existing_rules[1].priority
  /\ Lower(call.existing_rules[2].direction) = S_inbound
  /\ Lower(call.existing_rules[2].protocol) = S_tcp
  /\ ~Covers(call.existing_rules[2], call.source_ip, call.port)

\* the rules of `rules` whose name is not in the list `deleted`
RulesLeft(rules, deleted) ==
  LET Left(r) == r.name \notin Range(deleted) IN SelectSeq(rules, Left)

\* an inbound Allow rule for source 0.0.0.0/0 and port * at priority 100
IsAllowAllAt100(rule) ==
  /\ rule.priority = 100
  /\ Lower(rule.direction) = S_inbound
  /\ IsAllow(rule)
  /\ Lower(rule.protocol) \in {S_tcp, S_star}
  /\ rule.sourceAddressPrefix = <<"0", ".", "0", ".", "0", ".", "0", "/", "0">>
  /\ rule.destinationPortRange = <<"*">>

\* C3: the rule set the planner checks is the one left after the duplicate
\* removals; when a rule of it grants the request, no create is submitted, the
\* run is skipped and the group is left as re-fetched.  A group that holds an
\* inbound Allow for 0.0.0.0/0 and port * at priority 100 is skipped, citing
\* that rule, for every source address and port.
C3_CoveredMeansNoCreate ==
  (last.op = "ensure") =>
    /\ last.checked =>
         /\ last.existing_rules = RulesLeft(last.before, last.deleted)
         /\ (Granting(last.existing_rules, source_ip, os_info.port) # {} =>
               /\ last.created = <<>>
               /\ last.status = "skipped"
               /\ last.matching_rule \in Granting(last.existing_rules, source_ip, os_info.port)
               /\ nsg_rules = last.existing_rules)
    /\ \A r \in Range(last.before) :
         IsAllowAllAt100(r) =>
           /\ last.created = <<>>
           /\ (last.checked => last.status = "skipped" /\ last.matching_rule = r)

\* skipped after a duplicate was removed, citing the allow-all rule at 100
C3_Witness ==
  /\ last.op = "ensure"
  /\ last.status = "skipped"
  /\ last.deleted # <<>>
  /\ IsAllowAllAt100(last.matching_rule)

\* the create of the latest run was submitted a second time after a token
\* refresh: `repeated` holds one entry more than the deletes submitted twice
CreateResubmitted ==
  Len(last.repeated) > Len(last.attempted) - Len(last.duplicates)

\* C4: when check_existing_allow_rule returns None and a priority is allocated, the planner
\* makes exactly one create: Allow, Inbound, Tcp, source <source_ip>/32,
\* destination port of the service spec, at the allocated priority; the
\* command is submitted once, and a second time, unchanged, only when
\* run_az_command refreshed the token for it.  When the create succeeds
\* the group holds that rule besides the re-fetched ones.  In a
\* group without rules, for a Linux target with the default port and source
\* 198.51.100.7, the group then holds exactly that rule, 198.51.100.7/32 -> 22.
C4_CreatesExactlyOneRule ==
  (last.op = "ensure") =>
    /\ (/\ last.checked
        /\ last.matching_rule = None
        /\ find_available_priority(last.existing_rules, DefaultStart, DefaultEnd) # NoPriority)
         => /\ Len(last.created) = (IF CreateResubmitted THEN 2 ELSE 1)
            /\ \A k \in 1..Len(last.created) : last.created[k] = last.created[1]
            /\ CreateResubmitted
                  => last.repeated[Len(last.repeated)] = last.created[1].name
            /\ last.created[1].access = S_Allow
            /\ last.created[1].direction = S_Inbound
            /\ last.created[1].protocol = S_Tcp
            /\ last.created[1].sourceAddressPrefix = source_ip \o <<"/", "3", "2">>
            /\ last.created[1].sourceAddressPrefixes = <<>>
            /\ last.created[1].destinationPortRange = os_info.port
            /\ last.created[1].destinationPortRanges = <<>>
            /\ last.created[1].priority =
                 find_available_priority(last.existing_rules, DefaultStart, DefaultEnd)
            /\ (last.status = "created" =>
                  /\ last.created[1] \in Range(nsg_rules)
                  /\ Range(nsg_rules) \subseteq Range(last.existing_rules) \cup {last.created[1]})
    /\ (/\ last.before = <<>>
        /\ last.status = "created"
        /\ os_info.service = S_SSH
        /\ os_info.port = <<"2", "2">>
        /\ source_ip = <<"1", "9", "8", ".", "5", "1", ".", "1", "0", "0", ".", "7">>)
         => /\ Len(nsg_rules) = 1
            /\ nsg_rules[1].access = S_Allow
            /\ nsg_rules[1].direction = S_Inbound
            /\ nsg_rules[1].protocol = S_Tcp
            /\ nsg_rules[1].sourceAddressPrefix = <<"1", "9", "8", ".", "5", "1", ".", "1", "0", "0", ".", "7", "/", "3", "2">>
            /\ nsg_rules[1].destinationPortRange = <<"2", "2">>

C4_Witness ==
  /\ last.op = "ensure"
  /\ last.before = <<>>
  /\ last.status = "created"
  /\ os_info = LinuxInfo
  /\ source_ip = IP_A
  /\ Len(nsg_rules) = 1

\* the run before the latest one was an ensure-access run that completed
FirstRunCompleted == prev.op = "ensure" /\ prev.status \in {"skipped", "created"}

\* C5: an ensure-access run that follows a completed ensure-access run for the
\* same group, source address and service spec creates no rule.
C5_SecondRunCreatesNothing ==
  (last.op = "ensure" /\ FirstRunCompleted) => last.created = <<>>

\* C6: no two rules of the group share a priority, and every rule the planner
\* creates has a priority in 100..4096.
C6_PrioritiesDistinct ==
  /\ \A i, j \in 1..Len(nsg_rules) :
       i # j => nsg_rules[i].priority # nsg_rules[j].priority
  /\ \A k \in 1..Len(last.created) : last.created[k].priority \in 100..4096

\* two runs in a row each created a rule
C6_Witness ==
  /\ prev.op = "ensure"
  /\ prev.status = "created"
  /\ last.op = "ensure"
  /\ last.status = "created"
  /\ Len(nsg_rules) = 3

AllocApplied == call.fn = "find_available_priority"

\* C7: a priority find_available_priority returns is the smallest integer from
\* `start` on that no existing rule uses, and is below 65000; for rules at 100
\* and 101 it is 102.
C7_SmallestFreePriority ==
  AllocApplied =>
    /\ call.priority # NoPriority =>
         /\ call.priority >= call.start
         /\ call.priority \notin Priorities(call.existing_rules)
         /\ \A q \in call.start..(call.priority - 1) : q \in Priorities(call.existing_rules)
         /\ call.priority < 65000
    /\ (/\ Priorities(call.existing_rules) = {100, 101}
        /\ call.start = 100
        /\ call.end = 4096) => call.priority = 102

C7_Witness ==
  /\ AllocApplied
  /\ Priorities(call.existing_rules) = {100, 101}
  /\ call.start = 100
  /\ call.end = 4096
  /\ call.priority = 102

\* C8: with the default bounds find_available_priority fails exactly when every
\* priority of 100..4096 is in use.
C8_FailsOnlyWhenRangeExhausted ==
  (AllocApplied /\ call.start = 100 /\ call.end = 4096) =>
    ((call.priority = NoPriority) <=>
       (\A p \in 100..4096 : p \in Priorities(call.existing_rules)))

DuplicatesApplied == call.fn = "find_duplicate_rules"

\* the rules of the list with the signature of `rule`
SameSignature(rules, rule) ==
  {r \in Range(rules) : get_rule_signature(r) = get_rule_signature(rule)}

\* the entry of find_duplicate_rules that marks `rule` and keeps `kept`
Marks(entry, rule, kept) ==
  /\ entry.name = rule.name
  /\ entry.priority = rule.priority
  /\ entry.kept_name = kept.name
  /\ entry.kept_priority = kept.priority

\* C9: in every group of two or more rules of equal signature,
\* find_duplicate_rules marks every rule except the one of lowest priority
\* number, naming that one as kept, and does not mark that one; of two such
\* rules at 110 and 120 it marks the one at 120 and keeps the one at 110.
C9_KeepsLowestPriority ==
  DuplicatesApplied =>
    /\ \A r \in Range(call.existing_rules) :
         LET group == SameSignature(call.existing_rules, r)
             kept == CHOOSE k \in group : \A q \in group : k.priority <= q.priority
         IN  Cardinality(group) >= 2 =>
               IF r = kept
               THEN \A e \in Range(call.duplicates) : e.name # r.name
               ELSE \E e \in Range(call.duplicates) : Marks(e, r, kept)
    /\ \A r, k \in Range(call.existing_rules) :
         (/\ Len(call.existing_rules) = 2
          /\ get_rule_signature(r) = get_rule_signature(k)
          /\ r.priority = 120
          /\ k.priority = 110)
           => call.duplicates = <<[name |-> r.name, priority |-> 120,
                                   kept_name |-> k.name, kept_priority |-> 110]>>

\* the rule at 120 stands first in the list, its duplicate at 110 second
C9_Witness ==
  /\ DuplicatesApplied
  /\ Len(call.existing_rules) = 2
  /\ call.existing_rules[1].priority = 120
  /\ call.existing_rules[2].priority = 110
  /\ get_rule_signature(call.existing_rules[1]) = get_rule_signature(call.existing_rules[2])
  /\ Len(call.duplicates) = 1
  /\ call.duplicates[1].name = call.existing_rules[1].name

\* C10: every rule a planner run or a cleanup run deleted as a duplicate has
\* the signature of a different rule that the group held before the run and
\* still holds after it.
C10_DeletedRuleHasTwin ==
  (last.op \in {"ensure", "cleanup"}) =>
    \A r \in Range(last.before) :
      r.name \in Range(last.deleted) =>
        \E q \in Range(last.before) \cap Range(nsg_rules) :
          /\ q.name # r.name
          /\ get_rule_signature(q) = get_rule_signature(r)

\* an ensure-access run deleted a duplicate and went on
C10_Witness ==
  /\ last.op = "ensure"
  /\ last.deleted # <<>>
  /\ last.checked

\* the names find_duplicate_rules marks in `rules`
MarkedNames(rules) ==
  LET duplicates == find_duplicate_rules(rules)
  IN  {duplicates[k].name : k \in 1..Len(duplicates)}

\* `left` is `rules` without the rules find_duplicate_rules marks in it, holds
\* no duplicate, and carries every signature of `rules` exactly once
DeduplicatedFrom(rules, left) ==
  /\ left = SelectSeq(rules, LAMBDA r : r.name \notin MarkedNames(rules))
  /\ find_duplicate_rules(left) = <<>>
  /\ \A r \in Range(rules) : Cardinality(SameSignature(left, r)) = 1

\* C11: once the rules find_duplicate_rules marks are removed (by a cleanup
\* run, or by the first step of a planner run), find_duplicate_rules marks
\* nothing in the remaining rules and every signature of the original rules is
\* carried by exactly one remaining rule; a run that follows a completed
\* cleanup run finds no duplicate.
C11_DedupIdempotent ==
  /\ (last.op = "cleanup" /\ last.status = "cleaned") =>
       DeduplicatedFrom(last.before, nsg_rules)
  /\ (last.op = "ensure" /\ last.checked) =>
       DeduplicatedFrom(last.before, last.existing_rules)
  /\ (prev.op = "cleanup" /\ prev.status = "cleaned" /\ last.op = "cleanup") =>
       last.duplicates = <<>>

\* a cleanup run removed two duplicates of one rule
C11_Witness ==
  /\ last.op = "cleanup"
  /\ last.status = "cleaned"
  /\ Len(last.before) = 3
  /\ Len(last.deleted) = 2
  /\ Len(nsg_rules) = 1

\* the non-empty source prefixes and port specs of a rule, single-valued and
\* list-valued alike, in lower case
SourcePrefixes(rule) == {Lower(p) : p \in SourceSet(rule) \ {<<>>}}

PortSpecs(rule) == {Lower(p) : p \in PortSet(rule) \ {<<>>}}

\* the rules agree on direction, access, protocol, source set and port set
SameFiveFields(r, q) ==
  /\ Lower(r.direction) = Lower(q.direction)
  /\ Lower(r.access) = Lower(q.access)
  /\ Lower(r.protocol) = Lower(q.protocol)
  /\ SourcePrefixes(r) = SourcePrefixes(q)
  /\ PortSpecs(r) = PortSpecs(q)

\* C12: two rules of a list handed to find_duplicate_rules have equal
\* signatures exactly when they agree on direction, access, protocol, the set
\* of their source prefixes and the set of their destination port specs.
C12_SignatureIsTheFiveFields ==
  DuplicatesApplied =>
    \A r, q \in Range(call.existing_rules) :
      (get_rule_signature(r) = get_rule_signature(q)) <=> SameFiveFields(r, q)

\* a non-empty string of decimal digits
IsDecimal(s) == s # <<>> /\ \A i \in 1..Len(s) : IsAsciiDigit(s[i])

\* spec is low-high, low and high decimal, and low <= target <= high
DecimalRangeCovers(spec, target) ==
  \E i \in 1..Len(spec) :
    LET low == SubSeq(spec, 1, i - 1)
        high == SubSeq(spec, i + 1, Len(spec))
    IN  /\ spec[i] = "-"
        /\ IsDecimal(low)
        /\ IsDecimal(high)
        /\ IsDecimal(target)
        /\ DigitsVal(low) <= DigitsVal(target)
        /\ DigitsVal(target) <= DigitsVal(high)

\* spec is low-high, cut at its first "-", where low, high and the target are
\* integers as int() reads them, and low <= target <= high
RangeCovers(spec, target) ==
  \E i \in 1..Len(spec) :
    LET low == SubSeq(spec, 1, i - 1)
        high == SubSeq(spec, i + 1, Len(spec))
    IN  /\ spec[i] = "-"
        /\ \A j \in 1..(i - 1) : spec[j] # "-"
        /\ IntOk(low)
        /\ IntOk(high)
        /\ IntOk(target)
        /\ IntVal(low) <= IntVal(target)
        /\ IntVal(target) <= IntVal(high)

PortApplied == call.fn = "port_matches"

\* C13 as the statement reads: port_matches is true exactly when the rule port
\* spec is "*", or equals the target port, or is a range low-high of integers
\* with low <= target <= high, both ends included; every other spec gives
\* false.  A spec with surrounding whitespace such as " 22 " or " * " is none of
\* the three and covers.
C13_PortCoversAsWritten ==
  PortApplied =>
    (call.matches <=>
       \/ call.rule_port = <<"*">>
       \/ call.rule_port = call.port
       \/ DecimalRangeCovers(call.rule_port, call.port))

\* C13: port_matches is true exactly when the rule port spec is not empty and,
\* with its leading and trailing whitespace removed, is "*", or equals the
\* target port, or is a range low-high cut at its first "-" whose bounds and
\* the target port are integers as int() reads them, with
\* low <= target <= high, both ends included; every other spec gives false.
\* "1000-2000" covers 1500 and not 2001, "*" covers 22.
C13_PortCovers ==
  PortApplied =>
    /\ call.matches <=>
         /\ call.rule_port # <<>>
         /\ \/ Strip(call.rule_port) = <<"*">>
            \/ Strip(call.rule_port) = call.port
            \/ RangeCovers(Strip(call.rule_port), call.port)
    /\ (call.rule_port = <<"1", "0", "0", "0", "-", "2", "0", "0", "0">> /\ call.port = <<"1", "5", "0", "0">>) => call.matches
    /\ (call.rule_port = <<"1", "0", "0", "0", "-", "2", "0", "0", "0">> /\ call.port = <<"2", "0", "0", "1">>) => ~call.matches
    /\ (call.rule_port = <<"*">> /\ call.port = <<"2", "2">>) => call.matches
    /\ call.rule_port \in {<<>>, <<"2", "2", "-", "a", "b", "c">>, <<"a", "b", "c", "-", "2", "0", "0", "0">>} => ~call.matches
    /\ (call.rule_port = <<" ", "2", "2", " ">> /\ call.port = <<"2", "2">>) => call.matches
    /\ (call.rule_port = <<" ", "1", "0", "0", "0", " ", "-", " ", "2", "0", "0", "0", " ">> /\ call.port = <<"2", "0", "0", "1">>) => ~call.matches
    /\ call.rule_port = <<"1", "_", "_", "0", "0", "0", "-", "2", "0", "0", "0">> => ~call.matches

\* a range written with whitespace around the spec and around its bounds covers
\* its upper end
C13_Witness ==
  /\ PortApplied
  /\ call.rule_port = <<" ", "1", "0", "0", "0", " ", "-", " ", "2", "0", "0", "0", " ">>
  /\ call.port = <<"2", "0", "0", "0">>
  /\ call.matches

\* a dotted quad of decimal octets, none with a leading zero
IsQuad(s) ==
  LET parts == Split(s, ".")
  IN  /\ Len(parts) = 4
      /\ \A i \in 1..4 :
           /\ IsDecimal(parts[i])
           /\ Len(parts[i]) <= 3
           /\ Len(parts[i]) = 1 \/ parts[i][1] # "0"
           /\ DigitsVal(parts[i]) <= 255

\* the k-th of the 32 bits of a dotted quad, from the highest
QuadBit(s, k) ==
  LET parts == Split(s, ".")
  IN  (DigitsVal(parts[((k - 1) \div 8) + 1]) \div (2 ^ (7 - ((k - 1) % 8)))) % 2

\* the k-th of the 128 bits of an IPv6 address, from the highest
V6Bit(s, k) ==
  (IPv6Hextets(s)[((k - 1) \div 16) + 1] \div (2 ^ (15 - ((k - 1) % 16)))) % 2

\* the dotted quad p is the netmask of length n: n one bits, then zero bits
IsNetmask(p, n) ==
  IsQuad(p) /\ \A k \in 1..32 : QuadBit(p, k) = (IF k <= n THEN 1 ELSE 0)

\* the dotted quad p is the hostmask of length n: n zero bits, then one bits
IsHostmask(p, n) ==
  IsQuad(p) /\ \A k \in 1..32 : QuadBit(p, k) = (IF k <= n THEN 0 ELSE 1)

\* p gives an IPv4 network the prefix length n: as decimal digits, as a
\* netmask, or, when p is no netmask, as a hostmask
PrefixIs(p, n) ==
  \/ IsDecimal(p) /\ DigitsVal(p) = n
  \/ IsNetmask(p, n)
  \/ IsHostmask(p, n) /\ \A m \in 0..32 : ~IsNetmask(p, m)

\* block is address/prefix with one "/", an IPv4 address with a prefix of
\* length 0..32 or an IPv6 address with a decimal length 0..128, ip is an
\* address of the same version, and the two agree on the first `length` bits
NetworkContains(block, ip) ==
  LET parts == Split(block, "/")
  IN  /\ Len(parts) = 2
      /\ \/ /\ IsQuad(parts[1])
            /\ IsQuad(ip)
            /\ \E n \in 0..32 :
                 /\ PrefixIs(parts[2], n)
                 /\ \A k \in 1..n : QuadBit(parts[1], k) = QuadBit(ip, k)
         \/ /\ IPv6Ok(parts[1])
            /\ IPv6Ok(ip)
            /\ IsDecimal(parts[2])
            /\ DigitsVal(parts[2]) <= 128
            /\ \A k \in 1..DigitsVal(parts[2]) : V6Bit(parts[1], k) = V6Bit(ip, k)

SourceApplied == call.fn = "source_matches"

\* C14 as the statement reads: source_matches is true exactly when the rule
\* source is one of the literals "*", "Internet", "Any", or equals the target
\* address, or equals <target address>/32, or is a CIDR block that contains the
\* target address.  A source with surrounding whitespace such as " Internet "
\* or " 10.0.0.5" is none of these and covers.
C14_SourceCoversAsWritten ==
  SourceApplied =>
    (call.matches <=>
       \/ call.rule_source \in {<<"*">>, <<"I", "n", "t", "e", "r", "n", "e", "t">>, <<"A", "n", "y">>}
       \/ call.rule_source = call.source_ip
       \/ call.rule_source = call.source_ip \o <<"/", "3", "2">>
       \/ NetworkContains(call.rule_source, call.source_ip))

\* C14: source_matches is true exactly when the rule source is not empty and,
\* with its leading and trailing whitespace removed, is one of the literals
\* "*", "Internet", "Any" (in exactly this case), or equals the target address,
\* or equals <target address>/32, or is a network address/prefix (the prefix a
\* length, a netmask or a hostmask; host bits of the address ignored) that
\* contains the target address; case variants of the literals and malformed
\* CIDR blocks give false.  10.0.0.0/24 covers 10.0.0.5 and not 10.0.1.5.
C14_SourceCovers ==
  SourceApplied =>
    /\ call.matches <=>
         /\ call.rule_source # <<>>
         /\ \/ Strip(call.rule_source) \in {<<"*">>, <<"I", "n", "t", "e", "r", "n", "e", "t">>, <<"A", "n", "y">>}
            \/ Strip(call.rule_source) = call.source_ip
            \/ Strip(call.rule_source) = call.source_ip \o <<"/", "3", "2">>
            \/ NetworkContains(Strip(call.rule_source), call.source_ip)
    /\ call.rule_source \in {<<"i", "n", "t", "e", "r", "n", "e", "t">>, <<"a", "n", "y">>, <<"A", "N", "Y">>, <<" ", "i", "n", "t", "e", "r", "n", "e", "t">>} => ~call.matches
    /\ call.rule_source \in {<<"1", "0", ".", "0", ".", "0", ".", "0", "/", "3", "3">>, <<"1", "0", ".", "0", ".", "0", "/", "2", "4">>, <<"b", "o", "g", "u", "s", "/", "2", "4">>, <<"1", "0", ".", "0", ".", "0", ".", "0", "/", "2", "5", "5", ".", "0", ".", "2", "5", "5", ".", "0">>, <<"0", "1", "0", ".", "0", ".", "0", ".", "0", "/", "8">>, <<"1", "0", ".", "0", ".", "0", ".", "0", "/", "2", "4", "/", "2", "4">>} => ~call.matches
    /\ (call.rule_source = <<"1", "0", ".", "0", ".", "0", ".", "0", "/", "2", "4">> /\ call.source_ip = <<"1", "0", ".", "0", ".", "0", ".", "5">>) => call.matches
    /\ (call.rule_source = <<"1", "0", ".", "0", ".", "0", ".", "0", "/", "2", "4">> /\ call.source_ip = <<"1", "0", ".", "0", ".", "1", ".", "5">>) => ~call.matches
    /\ (call.rule_source = <<"2", "0", "3", ".", "0", ".", "1", "1", "3", ".", "9", "/", "3", "2">> /\ call.source_ip = <<"2", "0", "3", ".", "0", ".", "1", "1", "3", ".", "9">>) => call.matches
    /\ call.rule_source = <<" ", "I", "n", "t", "e", "r", "n", "e", "t", " ">> => call.matches
    /\ (call.rule_source = <<"1", "0", ".", "0", ".", "0", ".", "0", "/", "2", "5", "5", ".", "2", "5", "5", ".", "2", "5", "5", ".", "0">> /\ call.source_ip = <<"1", "0", ".", "0", ".", "0", ".", "5">>) => call.matches
    /\ (call.rule_source = <<"1", "0", ".", "0", ".", "0", ".", "0", "/", "2", "5", "5", ".", "2", "5", "5", ".", "2", "5", "5", ".", "0">> /\ call.source_ip = <<"1", "0", ".", "0", ".", "1", ".", "5">>) => ~call.matches
    /\ (call.rule_source \in {IPv6Block, IPv6All, IPv6Half} /\ call.source_ip = IPv6Caller) => call.matches
    /\ (call.rule_source = IPv6Other /\ call.source_ip = IPv6Caller) => ~call.matches

\* a block written with a netmask of 23 bits covers an address of its second
\* half
C14_Witness ==
  /\ SourceApplied
  /\ call.rule_source = <<"1", "0", ".", "0", ".", "0", ".", "0", "/", "2", "5", "5", ".", "2", "5", "5", ".", "2", "5", "4", ".", "0">>
  /\ call.source_ip = <<"1", "0", ".", "0", ".", "1", ".", "5">>
  /\ call.matches

\* d has a value other than null under key k
Present(d, k) == d # None /\ k \in DOMAIN d /\ d[k] # None

\* the value under key k, the empty value when there is none
Part(d, k) == IF Present(d, k) THEN d[k] ELSE <<>>

VmProfile == Part(call.vm, "osProfile")

VmDiskType == Lower(Part(Part(Part(call.vm, "storageProfile"), "osDisk"), "osType"))

VmImage == Part(Part(call.vm, "storageProfile"), "imageReference")

ImageHasKeyword ==
  \E f \in {"publisher", "offer", "sku"} :
    \E kw \in { <<"w", "i", "n", "d", "o", "w", "s">>, <<"w", "i", "n", "d", "o", "w", "s", "s", "e", "r", "v", "e", "r">>, <<"w", "i", "n", "d", "o", "w", "s", "d", "e", "s", "k", "t", "o", "p">>, <<"m", "i", "c", "r", "o", "s", "o", "f", "t", "w", "i", "n", "d", "o", "w", "s">>, <<"w", "i", "n">> } :
      InStr(kw, Lower(Part(VmImage, f)))

\* the first step that matches: 1 configuration block, 2 disk type,
\* 3 image keyword, 4 fallback
DecidingStep ==
  IF Present(VmProfile, "windowsConfiguration") \/ Present(VmProfile, "linuxConfiguration")
    THEN 1
  ELSE IF VmDiskType \in { <<"w", "i", "n", "d", "o", "w", "s">>, <<"l", "i", "n", "u", "x">> } THEN 2
  ELSE IF ImageHasKeyword THEN 3
  ELSE 4

\* the deciding step resolves to Windows
DecidedWindows ==
  \/ DecidingStep = 1 /\ Present(VmProfile, "windowsConfiguration")
  \/ DecidingStep = 2 /\ VmDiskType = <<"w", "i", "n", "d", "o", "w", "s">>
  \/ DecidingStep = 3

ClassifyApplied == call.fn = "detect_vm_os"

\* C15: detect_vm_os always returns a service spec; the spec is the one of
\* the first step that matches, in the order configuration block of the OS
\* profile, OS-disk type, Windows keyword in publisher, offer or sku of the
\* image, Linux fallback: RDP over Tcp for Windows and SSH over Tcp for
\* Linux; the port is the override given for that service, else 3389 for
\* RDP and 22 for SSH.
C15_FirstMatchingStepDecides ==
  ClassifyApplied =>
    /\ call.os_info # None
    /\ call.os_info.protocol = <<"T", "c", "p">>
    /\ DecidedWindows =>
         /\ call.os_info.service = <<"R", "D", "P">>
         /\ call.os_info.os_type = <<"W", "i", "n", "d", "o", "w", "s">>
         /\ call.os_info.port = (IF Present(call.port_config, "rdp_port")
                                   THEN call.port_config.rdp_port ELSE <<"3", "3", "8", "9">>)
    /\ ~DecidedWindows =>
         /\ call.os_info.service = <<"S", "S", "H">>
         /\ call.os_info.os_type = <<"L", "i", "n", "u", "x">>
         /\ call.os_info.port = (IF Present(call.port_config, "ssh_port")
                                   THEN call.port_config.ssh_port ELSE <<"2", "2">>)

\* a Linux configuration block decides against a Windows disk type and a
\* Windows keyword in the image, and the SSH override is the port
C15_Witness ==
  /\ ClassifyApplied
  /\ Present(VmProfile, "linuxConfiguration")
  /\ ~Present(VmProfile, "windowsConfiguration")
  /\ VmDiskType = <<"w", "i", "n", "d", "o", "w", "s">>
  /\ ImageHasKeyword
  /\ Present(call.port_config, "ssh_port")
  /\ call.port_config.ssh_port # <<"2", "2">>
  /\ call.os_info.service = <<"S", "S", "H">>
  /\ call.os_info.port = call.port_config.ssh_port

\* C19: in the duplicate-removal step of a run of add_access_rule_to_nsg, a
\* delete is attempted for every rule marked for removal, also when the
\* delete of another marked rule has failed.
C19_EveryMarkedDeleteAttempted ==
  last.op = "ensure" =>
    \A k \in 1..Len(last.duplicates) :
      last.duplicates[k].name \in Range(last.attempted)

\* the ids of a list of groups
GroupIds(nsgs) == {nsgs[n].id : n \in 1..Len(nsgs)}

\* the topology of the target is resolved: process_vm is at or behind its
\* loop over the groups
Resolved == vm_run.pc \in {"rules", "done"} \/ vm_run.failed = "rule command"

\* the subnets the IP configurations of the target's interfaces refer to
ReferencedSubnets ==
  {s \in DOMAIN cloud.subnets :
     \E m \in 1..Len(vm_run.nic_ids) :
       \E c \in 1..Len(cloud.nics[vm_run.nic_ids[m]].ipConfigurations) :
         /\ cloud.nics[vm_run.nic_ids[m]].ipConfigurations[c].subnet # None
         /\ cloud.nics[vm_run.nic_ids[m]].ipConfigurations[c].subnet.id = s}

\* the positions of the commands `op` in the log of the run
CommandsOf(op) == {n \in 1..Len(vm_run.commands) : vm_run.commands[n].op = op}

\* C16: the list of groups process_vm builds holds each group id at most
\* once, and add_access_rule_to_nsg is run at most once per group, also
\* when a group guards several interfaces and subnets of the target.
C16_EachGroupOnce ==
  /\ \A m, n \in 1..Len(vm_run.all_nsgs) :
       m # n => vm_run.all_nsgs[m].id # vm_run.all_nsgs[n].id
  /\ \A m, n \in 1..Len(vm_run.ensured) :
       m # n => vm_run.ensured[m].id # vm_run.ensured[n].id

\* both interfaces and the subnet of both carry the group G1, and the run
\* has gone through its list of groups
C16_Witness ==
  /\ vm_run.pc = "done"
  /\ Len(vm_run.nic_ids) = 2
  /\ \A m \in 1..2 :
       /\ vm_run.before.nics[NicId(m)].networkSecurityGroup = [id |-> G1]
       /\ Len(vm_run.before.nics[NicId(m)].ipConfigurations) >= 1
       /\ vm_run.before.nics[NicId(m)].ipConfigurations[1].subnet = [id |-> SubnetA]
  /\ vm_run.before.subnets[SubnetA].networkSecurityGroup = [id |-> G1]
  /\ GroupIds(vm_run.all_nsgs) = {G1}
  /\ Len(vm_run.ensured) = 1

\* C17: when the topology of the target is resolved without provider error,
\* every interface of the target and every subnet its IP configurations
\* refer to has a group attached and the group is in the list; every group
\* creation was for an interface or subnet that had no group before the run,
\* and no interface or subnet has two creations.
C17_EveryPathGuarded ==
  Resolved =>
    /\ \A m \in 1..Len(vm_run.nic_ids) :
         /\ cloud.nics[vm_run.nic_ids[m]].networkSecurityGroup # None
         /\ cloud.nics[vm_run.nic_ids[m]].networkSecurityGroup.id
              \in GroupIds(vm_run.all_nsgs)
    /\ \A s \in ReferencedSubnets :
         /\ cloud.subnets[s].networkSecurityGroup # None
         /\ cloud.subnets[s].networkSecurityGroup.id \in GroupIds(vm_run.all_nsgs)
    /\ \A n \in CommandsOf("create") :
         \/ /\ vm_run.commands[n].target \in DOMAIN vm_run.before.nics
            /\ vm_run.before.nics[vm_run.commands[n].target].networkSecurityGroup = None
         \/ /\ vm_run.commands[n].target \in DOMAIN vm_run.before.subnets
            /\ vm_run.before.subnets[vm_run.commands[n].target].networkSecurityGroup = None
    /\ \A m, n \in CommandsOf("create") :
         m # n => vm_run.commands[m].target # vm_run.commands[n].target

\* the run ended in the attach that follows a group creation
AttachFailed == vm_run.failed \in {"nic update", "subnet update"}

\* submissions of a command in the run: two when run_az_command refreshed the
\* token for it and submitted it again, one otherwise
SubmissionsOf(command) ==
  IF \E k \in 1..Len(vm_run.repeated) : vm_run.repeated[k] = command THEN 2 ELSE 1

\* C18: when a group was created and the attach that follows fails, the
\* group stays in the provider state and the interface or subnet stays
\* without group; the failed attach is the only attach for it and the last
\* command of the run, which follows the creation of the group at once:
\* there is no deletion and no further step, and the error is reported.  The
\* log holds the attach once, and twice exactly when run_az_command
\* refreshed the token for it.
C18_OrphanLeftAndReported ==
  AttachFailed =>
    /\ vm_run.pc = "exited"
    /\ ~ENABLED NextVm
    /\ vm_run.reported
    /\ CommandsOf("delete") = {}
    /\ vm_run.commands # <<>>
    /\ vm_run.commands[Len(vm_run.commands)].op = "attach"
    /\ \E attach \in {vm_run.commands[Len(vm_run.commands)]} :
       \E create \in {[attach EXCEPT !.op = "create"]} :
         /\ Len(vm_run.commands) > SubmissionsOf(attach)
         /\ \A k \in 1..SubmissionsOf(attach) :
              vm_run.commands[Len(vm_run.commands) + 1 - k] = attach
         /\ vm_run.commands[Len(vm_run.commands) - SubmissionsOf(attach)] = create
         /\ Cardinality({n \in CommandsOf("attach") :
                           vm_run.commands[n].target = attach.target})
              = SubmissionsOf(attach)
    /\ vm_run.commands[Len(vm_run.commands)].nsg \in DOMAIN cloud.rules
    /\ vm_run.commands[Len(vm_run.commands)].nsg \notin DOMAIN vm_run.before.rules
    /\ \A t \in DOMAIN cloud.nics :
         t = vm_run.commands[Len(vm_run.commands)].target
           => cloud.nics[t].networkSecurityGroup = None
    /\ \A t \in DOMAIN cloud.subnets :
         t = vm_run.commands[Len(vm_run.commands)].target
           => cloud.subnets[t].networkSecurityGroup = None

\* the attach to a subnet failed after the creation of its group
C18_Witness ==
  /\ vm_run.failed = "subnet update"
  /\ vm_run.repeated = <<>>
  /\ Len(vm_run.commands) >= 2
  /\ vm_run.commands[Len(vm_run.commands) - 1].op = "create"
  /\ vm_run.commands[Len(vm_run.commands)].nsg \in DOMAIN cloud.rules

\* C20: when the create-rule command for one group of the target fails,
\* add_access_rule_to_nsg is still run for every group behind it in the
\* list.
C20_SiblingsStillEnsured ==
  (/\ vm_run.pc \in {"done", "exited"}
   /\ \E n \in 1..Len(vm_run.ensured) :
        vm_run.ensured[n].status = "provider_error" /\ vm_run.ensured[n].created # <<>>)
    => GroupIds(vm_run.ensured) = GroupIds(vm_run.all_nsgs)

\* the latest ensure-access run found the request blocked: the covering rule
\* of lowest priority number in the re-fetched rule set is a Deny
BlockedBy(d) ==
  /\ last.op = "ensure"
  /\ last.checked
  /\ last.matching_rule = None
  /\ d \in FirstCovering(last.existing_rules, source_ip, os_info.port)
  /\ IsDeny(d)

\* C28: when the first covering rule for the request is a Deny, so that
\* check_existing_allow_rule returns None, add_access_rule_to_nsg creates no
\* rule whose priority number is higher than that of the covering Deny.
C28_NoAllowBehindCoveringDeny ==
  \A d \in Range(last.existing_rules) :
    BlockedBy(d) =>
      \A n \in 1..Len(last.created) : last.created[n].priority <= d.priority

\* C29: after an ensure-access run that completed without error (skipped or
\* rule created), the covering rule of lowest priority number in the group's
\* resulting rule set, for the same source address and port, is an Allow.
C29_CompletedMeansGranted ==
  (last.op = "ensure" /\ last.status \in {"skipped", "created"}) =>
    Granting(nsg_rules, source_ip, os_info.port) # {}

\* the rules of `rules` that find_duplicate_rules does not mark
Deduplicated(rules) ==
  LET marked == find_duplicate_rules(rules)
      Kept(r) == \A k \in 1..Len(marked) : marked[k].name # r.name
  IN SelectSeq(rules, Kept)

\* C30: for every rule set, source address and port, check_existing_allow_rule
\* returns an Allow on the rule set exactly when it returns an Allow on the
\* rule set without the rules that find_duplicate_rules marks.
C30_DeduplicationKeepsDecision ==
  CheckApplied =>
    ((call.matching_rule # None) <=>
       (check_existing_allow_rule(Deduplicated(call.existing_rules),
                                  call.source_ip, call.port) # None))

\* C21: in batch mode, after a provider error or a priority-allocation error
\* while one target is reconciled, every later target of the batch is still
\* processed.
C21_LaterTargetsProcessed ==
  (session.mode = "all" /\ vm_run.failed # "none")
    ~> (Len(session.processed) = Len(session.targets))

\* the groups attached to the target's interfaces and to the subnets their
\* IP configurations refer to
GuardingGroups ==
  {cloud.nics[vm_run.nic_ids[m]].networkSecurityGroup.id :
     m \in {k \in 1..Len(vm_run.nic_ids) :
              cloud.nics[vm_run.nic_ids[k]].networkSecurityGroup # None}}
  \cup {cloud.subnets[s].networkSecurityGroup.id :
          s \in {t \in ReferencedSubnets : cloud.subnets[t].networkSecurityGroup # None}}

\* the groups no interface and no subnet carries
Unattached ==
  {g \in DOMAIN cloud.rules :
     /\ \A id \in DOMAIN cloud.nics :
          cloud.nics[id].networkSecurityGroup = None
            \/ cloud.nics[id].networkSecurityGroup.id # g
     /\ \A s \in DOMAIN cloud.subnets :
          cloud.subnets[s].networkSecurityGroup = None
            \/ cloud.subnets[s].networkSecurityGroup.id # g}

\* the invocation after one that a failed provider call ended ran through
ResumedRunDone == session.invocation > 1 /\ vm_run.pc = "done"

\* C22: when an invocation for a target ended after a prefix of its provider
\* operations (group created but not attached, group attached but rule not
\* added, some duplicates deleted), a following invocation for the same
\* target that runs through ends with every interface and every subnet of
\* the target guarded by an attached group, with exactly one completed
\* add_access_rule_to_nsg on each guarding group and on no other group, and
\* with none of the duplicates left that were marked in a guarding group.
C22_ResumedRunCompletes ==
  ResumedRunDone =>
    /\ \A m \in 1..Len(vm_run.nic_ids) :
         cloud.nics[vm_run.nic_ids[m]].networkSecurityGroup # None
    /\ \A s \in ReferencedSubnets : cloud.subnets[s].networkSecurityGroup # None
    /\ \A g \in GuardingGroups :
         /\ Cardinality({n \in 1..Len(vm_run.ensured) :
                           /\ vm_run.ensured[n].id = g
                           /\ vm_run.ensured[n].status \in {"skipped", "created"}}) = 1
         /\ \A n \in 1..Len(vm_run.ensured) : vm_run.ensured[n].id \in GuardingGroups
         /\ g \in DOMAIN session.initial.rules =>
              \A k \in 1..Len(find_duplicate_rules(session.initial.rules[g])) :
                \A n \in 1..Len(cloud.rules[g]) :
                  cloud.rules[g][n].name
                    # find_duplicate_rules(session.initial.rules[g])[k].name

\* C23: a call of run_connectivity_test whose power query answered with a
\* state other than "VM running" resolves no address and probes no port:
\* steps 2 and 3 are reached with a running VM only.
C23_NotRunningMeansNoResolution ==
  test.pc \in {"resolve", "probe"} => test.power_info.is_running

\* C24: in one run of run_connectivity_test every accepted start offer
\* makes exactly one call of run_az_command for "vm start"; a start that
\* succeeds is followed, after the wait, by exactly one recursive call, which
\* begins with one power query; a start that fails ends the run in that
\* command with no recursive call; an offer that is declined issues no start.
\* Hence the number of power queries is the number of successful starts plus
\* one, which is the number of accepts plus one for every run that returns
\* to its caller.
C24_OneStartAndRestartPerAccept ==
  /\ test.pc = "start" => test.starts + 1 = test.accepts
  /\ test.pc \notin {"none", "start"} => test.starts = test.accepts
  /\ test.restarts <= test.starts
  /\ test.starts <= test.restarts + 1
  /\ test.starts = test.restarts + 1 => test.pc \in {"sleep", "exited"}
  /\ test.pc = "sleep" => test.starts = test.restarts + 1
  /\ test.depth = test.restarts
       \/ test.pc \in {"return", "ended"}
  /\ test.pc = "power" => test.checks = test.restarts
  /\ test.pc \notin {"none", "power"} => test.checks = test.restarts + 1
  /\ test.pc = "ended" => test.checks = test.accepts + 1

\* two start offers were accepted, the third power query found the VM
\* running, and the run returned to its caller
C24_Witness ==
  /\ test.pc = "ended"
  /\ test.accepts = 2
  /\ test.starts = 2
  /\ test.restarts = 2
  /\ test.checks = 3
  /\ test.power_info.is_running

\* an accepted start offer whose start command failed
C24_StartFailed ==
  /\ test.pc = "exited"
  /\ test.accepts = 1
  /\ test.starts = 1
  /\ test.restarts = 0
  /\ test.checks = 1

\* C24 as stated: a run of run_connectivity_test that is over has issued
\* one power query more than the operator accepted start offers.
C24_ChecksAreAcceptsPlusOne ==
  test.pc \in {"ended", "exited"} => test.checks = test.accepts + 1

\* C25: one run of run_connectivity_test probes at most once, also when it
\* calls itself after an accepted start: a call that made the recursive
\* call resolves no address and probes nothing once that call returned, and
\* no probe follows a probe.
C25_AtMostOneProbe ==
  /\ test.probes <= 1
  /\ test.probes = 1 => test.pc \in {"return", "ended"}
  /\ test.probes = 1 => test.resolutions = 1
  /\ test.resolutions <= 1

\* a run that restarted after an accepted start made one probe, which
\* failed, and returned to its caller
C25_Witness ==
  /\ test.pc = "ended"
  /\ test.restarts >= 1
  /\ test.probes = 1
  /\ test.resolutions = 1
  /\ test.outcome = "unreachable"
  /\ ~test.result.success

\* C26: get_vm_public_ip_from_primary_nic begins with the lookup through
\* the interfaces and their IP configurations and calls "vm
\* list-ip-addresses" last, once, and only when that lookup found no
\* address; when the function returns without an address,
\* run_connectivity_test returns with the reason given, probes nothing and
\* does not end the process.
C26_FallbackOrderAndNoAddress ==
  test.resolutions > 0 =>
    /\ test.lookup.calls[1] = "vm show"
    /\ \A k \in 1..Len(test.lookup.calls) :
         test.lookup.calls[k] = "list-ip-addresses" =>
           /\ k = Len(test.lookup.calls)
           /\ k > 2
           /\ test.lookup.calls[k - 1] \in {"nic show", "public-ip show"}
           /\ test.lookup.direct = <<>>
    /\ test.lookup.direct # <<>> => test.lookup.address = test.lookup.direct
    /\ ~test.lookup.exited /\ test.lookup.address = <<>> =>
         /\ test.pc \in {"return", "ended"}
         /\ test.outcome = "no address"
         /\ test.probes = 0
         /\ test.result = None
    /\ ~test.lookup.exited /\ test.lookup.address # <<>> => test.public_ip = test.lookup.address

\* the address resource of an interface could not be read, the aggregate
\* lookup was made and gave nothing, and the test returned to its caller
\* unprobed
C26_Witness ==
  /\ test.pc = "ended"
  /\ test.outcome = "no address"
  /\ test.probes = 0
  /\ Len(test.lookup.calls) >= 4
  /\ test.lookup.calls[3] = "public-ip show"
  /\ test.lookup.calls[Len(test.lookup.calls)] = "list-ip-addresses"
  /\ test.lookup.address = <<>>

\* the aggregate lookup gave the address that was probed
C26_AggregateAddressProbed ==
  /\ test.probes = 1
  /\ test.lookup.direct = <<>>
  /\ test.lookup.calls[Len(test.lookup.calls)] = "list-ip-addresses"
  /\ test.lookup.address # <<>>

(***************************************************************************)
(* remove-rules mode: --resource-id, --all and the interactive selection   *)
(***************************************************************************)

S_DELETE == <<"D", "E", "L", "E", "T", "E">>

\* confirm = styled_input(...).strip(); if confirm != "DELETE": return
Confirmed_AnyAnswer(typed) == TRUE

Confirmed(typed) == Strip(typed) = S_DELETE

\* one call of remove_all_rules_for_vm against the provider state `provider`,
\* in which the provider call number fail_at fails (0: none fails).  deletes
\* counts the rules deleted: a delete command that succeeds when it is
\* submitted again after refresh_token() deletes its rule once
StartRemoval(provider, fail_at) ==
  [cloud |-> provider, calls |-> 0, fail_at |-> fail_at, exited |-> FALSE,
   raised |-> FALSE, nsgs |-> <<>>, deletes |-> 0]

\* if nic_nsg: nsg_id = nic_nsg["id"]; if not any(n["id"] == nsg_id ...)
WithGroup(st, nsg_ref) ==
  IF nsg_ref = None THEN st
  ELSE IF \E i \in 1..Len(st.nsgs) : st.nsgs[i] = nsg_ref.id THEN st
  ELSE [st EXCEPT !.nsgs = Append(@, nsg_ref.id)]

\* "network vnet subnet show" and the subnet's group
ShownSubnet(st, subnet_id) ==
  IF st.exited THEN st ELSE WithGroup(st, st.cloud.subnets[subnet_id].networkSecurityGroup)

\* one turn of "for ip_config in ip_configs" of get_all_nsgs_for_vm
SubnetGroup(st, ip_configs, j) ==
  IF st.exited THEN st
  ELSE IF ip_configs[j].subnet = None THEN st
  ELSE IF \E i \in 1..(j - 1) : ip_configs[i].subnet = ip_configs[j].subnet THEN st
  ELSE ShownSubnet(Made(st), ip_configs[j].subnet.id)

\* the first j turns of "for ip_config in ip_configs"
RECURSIVE SubnetGroups(_, _, _)
SubnetGroups(st, ip_configs, j) ==
  IF j = 0 THEN st
  ELSE SubnetGroup(SubnetGroups(st, ip_configs, j - 1), ip_configs, j)

\* "network nic show", the interface's own group and its subnets' groups
ShownNic(st, nic) ==
  IF st.exited THEN st
  ELSE SubnetGroups(WithGroup(st, nic.networkSecurityGroup),
                    nic.ipConfigurations, Len(nic.ipConfigurations))

\* the first k turns of "for nic_id in nic_ids" of get_all_nsgs_for_vm
RECURSIVE NicGroups(_, _, _)
NicGroups(st, nic_ids, k) ==
  IF k = 0 THEN st
  ELSE IF NicGroups(st, nic_ids, k - 1).exited THEN NicGroups(st, nic_ids, k - 1)
  ELSE ShownNic(Made(NicGroups(st, nic_ids, k - 1)), st.cloud.nics[nic_ids[k]])

\* get_all_nsgs_for_vm: get_vm_network_interfaces and the loop over them
get_all_nsgs_for_vm(st, nic_ids) ==
  IF Made(st).exited THEN Made(st)
  ELSE NicGroups(Made(st), nic_ids, Len(nic_ids))

\* "if not rule_name": the name is missing, null or empty
NoName(rule) == Get(rule, "name", <<>>) = None \/ Get(rule, "name", <<>>) = <<>>

\* access.lower() in the loop that displays the rules: a null access has no
\* lower() and raises AttributeError, which nothing catches
DisplayRaises(existing_rules) ==
  \E n \in 1..Len(existing_rules) : Get(existing_rules[n], "access", <<"?">>) = None

\* "network nsg rule delete" for one listed rule; a rule without name is
\* passed over
DeleteListed(st, nsg_id, rule) ==
  IF st.exited THEN st
  ELSE IF NoName(rule) THEN st
  ELSE IF Made(st).exited THEN Made(st)
  ELSE [Made(st) EXCEPT !.cloud.rules[nsg_id] = DeleteRule(@, rule.name),
                        !.deletes = @ + 1]

\* the first n turns of the delete loop of remove_all_rules_from_nsg
RECURSIVE DeleteAll(_, _, _, _)
DeleteAll(st, nsg_id, existing_rules, n) ==
  IF n = 0 THEN st
  ELSE DeleteListed(DeleteAll(st, nsg_id, existing_rules, n - 1), nsg_id, existing_rules[n])

\* remove_all_rules_from_nsg: get_existing_rules, the display of the rules
\* and the delete loop; raised: the process ended in an uncaught exception
remove_all_rules_from_nsg(st, nsg_id) ==
  IF st.exited \/ st.raised THEN st
  ELSE IF Made(st).exited THEN Made(st)
  ELSE IF DisplayRaises(get_existing_rules(st.cloud.rules[nsg_id]))
    THEN [Made(st) EXCEPT !.raised = TRUE]
  ELSE DeleteAll(Made(st), nsg_id, get_existing_rules(st.cloud.rules[nsg_id]),
                 Len(get_existing_rules(st.cloud.rules[nsg_id])))

\* the first n turns of "for nsg in nsgs" of remove_all_rules_for_vm
RECURSIVE RemoveFromGroups(_, _, _)
RemoveFromGroups(st, nsgs, n) ==
  IF n = 0 THEN st
  ELSE remove_all_rules_from_nsg(RemoveFromGroups(st, nsgs, n - 1), nsgs[n])

\* the groups are those found before the first deletion
RemoveFound(st) == RemoveFromGroups(st, st.nsgs, Len(st.nsgs))

remove_all_rules_for_vm(provider, nic_ids, fail_at) ==
  RemoveFound(get_all_nsgs_for_vm(StartRemoval(provider, fail_at), nic_ids))

\* provider calls of one remove_all_rules_for_vm that may be the failing one
MaxCalls == 10

\* answers at the confirmation prompt
ConfirmPool ==
  { S_DELETE, <<" ">> \o S_DELETE \o <<" ">>, S_DELETE \o <<"\t">>,
    <<"d", "e", "l", "e", "t", "e">>, <<"D", "E", "L", "E", "T", "E", "!">>,
    <<"D", "E", "L", "E", "T">>, <<"y">>, <<>> }

\* parsed answers at "Enter your selection": 1-based positions, sorted
SelectionPool == { <<>>, <<1>>, <<2>>, <<1, 2>> }

\* the VMs "vm list" answers with: VM m has the interface m of the provider
Subscription(provider) == VmList(Len(provider.vm_nics))

\* a rule list whose first rule has a null name
NamelessFirst ==
  << [DenyAll EXCEPT !.name = None, !.priority = 100],
     [DenyAll EXCEPT !.name = <<"r", "2">>, !.priority = 101] >>

\* a rule list whose second rule has a null access
NullAccess ==
  << [DenyAll EXCEPT !.name = <<"r", "1">>, !.priority = 100],
     [DenyAll EXCEPT !.name = <<"r", "2">>, !.priority = 101, !.access = None] >>

InitRemove ==
  /\ PlannerIdle
  /\ call = NoCall
  /\ test = NoTest
  /\ vm_run = NoVmRun
  /\ \E n \in 0..MaxTargets :
       \E nic_nsg \in [1..n -> 1..3], ip \in [1..n -> {2, 4}], a \in 1..3,
          rules \in {<<>>, ThreeAlike, NamelessFirst, NullAccess},
          mode \in {"single", "all", "interactive"} :
         /\ mode = "single" => n > 0
         /\ cloud = [Topology(n, nic_nsg, ip, a, 1) EXCEPT !.rules[G1] = rules]
         /\ session = [NoSession EXCEPT
                         !.mode = mode,
                         !.targets = IF mode = "single" THEN SubSeq(VmList(n), 1, 1) ELSE <<>>,
                         !.status = IF mode = "single" THEN "prompt" ELSE "list",
                         !.initial = cloud]

RemoveStep(loop, provider) ==
  /\ session' = loop
  /\ cloud' = provider
  /\ UNCHANGED <<nsg_rules, source_ip, os_info, clock, runs, last, prev, call, vm_run, test>>

\* vms = get_all_vms_in_subscription(); if not vms: sys.exit(0)
ListVms ==
  /\ session.status = "list"
  /\ \E failed \in BOOLEAN :
       RemoveStep([session EXCEPT
                     !.targets = IF failed THEN @ ELSE Subscription(cloud),
                     !.status = IF failed \/ Subscription(cloud) = <<>> THEN "exited"
                                ELSE IF session.mode = "all" THEN "prompt"
                                ELSE "select",
                     !.ended_in = IF failed THEN "vm list"
                                  ELSE IF Subscription(cloud) = <<>> THEN "no vms"
                                  ELSE @],
                  cloud)

\* select_vms_interactive at "Enter your selection": without a valid
\* selection the prompt comes again, with one the selected VMs are shown
SelectVms ==
  /\ session.status = "select"
  /\ \E selected_indices \in SelectionPool :
       /\ \A i \in 1..Len(selected_indices) : selected_indices[i] <= Len(session.targets)
       /\ RemoveStep(IF selected_indices # <<>>
                     THEN [session EXCEPT
                             !.selected = [i \in 1..Len(selected_indices) |->
                                             session.targets[selected_indices[i]]],
                             !.status = "selected"]
                     ELSE session,
                     cloud)

\* select_vms_interactive at "... with these N VM(s)? (y/n)": y or yes
\* returns the selected VMs, every other answer leads back to the selection
ConfirmSelection ==
  /\ session.status = "selected"
  /\ \E typed \in AnswerPool :
       RemoveStep(IF Accepted(typed)
                  THEN [session EXCEPT !.targets = session.selected,
                                       !.selected = <<>>,
                                       !.status = "prompt"]
                  ELSE [session EXCEPT !.selected = <<>>, !.status = "select"],
                  cloud)

\* the prompt "Type 'DELETE' to confirm rule removal"
ConfirmRemoval ==
  /\ session.status = "prompt"
  /\ \E typed \in ConfirmPool :
       RemoveStep([session EXCEPT
                     !.confirm = typed,
                     !.status = IF Confirmed(typed) THEN "removing" ELSE "cancelled"],
                  cloud)

\* the outcome `out` of remove_all_rules_for_vm for the next VM
Removed(loop, target, out) ==
  [loop EXCEPT !.idx = @ + 1,
               !.processed = Append(@, target.name),
               !.deletes = @ + out.deletes,
               !.status = IF out.exited \/ out.raised THEN "exited" ELSE @,
               !.ended_in = IF out.exited THEN "rule removal"
                            ELSE IF out.raised THEN "AttributeError"
                            ELSE @]

\* for idx, vm in enumerate(vms, 1): remove_all_rules_for_vm(vm["id"])
RemoveForVm ==
  /\ session.status = "removing"
  /\ session.idx < Len(session.targets)
  /\ \E fail_at \in 0..MaxCalls :
       /\ (fail_at # 0) <=>
            remove_all_rules_for_vm(cloud, session.targets[session.idx + 1].nics, fail_at).exited
       /\ RemoveStep(Removed(session, session.targets[session.idx + 1],
                             remove_all_rules_for_vm(cloud, session.targets[session.idx + 1].nics,
                                                     fail_at)),
                     remove_all_rules_for_vm(cloud, session.targets[session.idx + 1].nics,
                                             fail_at).cloud)

\* print_completion_banner("All custom rules removed successfully")
EndRemove ==
  /\ session.status = "removing"
  /\ session.idx = Len(session.targets)
  /\ RemoveStep([session EXCEPT !.status = "done"], cloud)

NextRemove ==
  \/ ListVms
  \/ SelectVms
  \/ ConfirmSelection
  \/ ConfirmRemoval
  \/ RemoveForVm
  \/ EndRemove

SpecRemove == InitRemove /\ [][NextRemove]_vars

\* C27: in remove-rules mode (one VM, all VMs, interactive selection) a
\* rule is deleted only after the operator answered the confirmation
\* prompt with DELETE, upper case, surrounding whitespace not counted; up to
\* the prompt and after every other answer the rules of every group are
\* those of the start, and the run is over after such an answer.
C27_DeleteOnlyAfterDELETE ==
  /\ session.deletes > 0 => Strip(session.confirm) = S_DELETE
  /\ cloud.rules # session.initial.rules => session.deletes > 0
  /\ session.status \in {"list", "select", "selected", "prompt"} =>
       session.deletes = 0 /\ cloud = session.initial
  /\ session.status \in {"prompt", "removing", "cancelled", "done"} =>
       session.targets # <<>>
  /\ session.status \in {"removing", "done"} => Strip(session.confirm) = S_DELETE
  /\ session.status = "cancelled" =>
       /\ Strip(session.confirm) # S_DELETE
       /\ session.deletes = 0
       /\ cloud = session.initial
       /\ ~ENABLED NextRemove

\* the operator typed DELETE, and the four rules of the two groups of the
\* selected VM were deleted
C27_Witness ==
  /\ session.status = "done"
  /\ session.mode = "interactive"
  /\ session.confirm = S_DELETE
  /\ session.deletes = 4
  /\ Len(session.initial.rules[G1]) = 3
  /\ cloud.rules[G1] = <<>>
  /\ cloud.rules[G2] = <<>>

\* the operator typed "delete", and the run ended with the rules in place
C27_Cancelled ==
  /\ session.status = "cancelled"
  /\ session.mode = "all"
  /\ session.confirm = <<"d", "e", "l", "e", "t", "e">>
  /\ Len(cloud.rules[G1]) = 3

\* C27 as stated: a rule is deleted only when the answer at the
\* confirmation prompt was exactly DELETE.
C27_DeleteOnlyAfterExactDELETE ==
  session.deletes > 0 => session.confirm = S_DELETE

====
